---- MODULE Spec2Model ----
(***************************************************************************)
(* Model of the table-structure analysis of step2_analyze_docx.py: the     *)
(* value type classifier, symbol and key/value extraction, the table grid  *)
(* parser, vertical merge resolution, section inference and the field      *)
(* lists built by parse_table.                                             *)
(*                                                                         *)
(* A text is a sequence of characters, each character a string.  ASCII     *)
(* characters stand for themselves; the non-ASCII characters the code      *)
(* names are written by code point: "U+06F0".."U+06F9" (Persian digits),   *)
(* "U+0660".."U+0669" (Arabic-Indic digits), "U+FF1A" (full-width colon),  *)
(* "U+00B1" (plus-minus sign), "U+00B5" (micro sign).                      *)
(***************************************************************************)
EXTENDS Integers, Sequences, FiniteSets, TLC

None == "None"

(***************************************************************************)
(* Characters and character classes (Python str / re semantics).           *)
(***************************************************************************)
AsciiDigits == <<"0", "1", "2", "3", "4", "5", "6", "7", "8", "9">>

PersianDigits ==
  <<"U+06F0", "U+06F1", "U+06F2", "U+06F3", "U+06F4",
    "U+06F5", "U+06F6", "U+06F7", "U+06F8", "U+06F9">>

ArabicIndicDigits ==
  <<"U+0660", "U+0661", "U+0662", "U+0663", "U+0664",
    "U+0665", "U+0666", "U+0667", "U+0668", "U+0669">>

LowerLetters ==
  <<"a", "b", "c", "d", "e", "f", "g", "h", "i", "j", "k", "l", "m",
    "n", "o", "p", "q", "r", "s", "t", "u", "v", "w", "x", "y", "z">>

UpperLetters ==
  <<"A", "B", "C", "D", "E", "F", "G", "H", "I", "J", "K", "L", "M",
    "N", "O", "P", "Q", "R", "S", "T", "U", "V", "W", "X", "Y", "Z">>

Range(s) == {s[i] : i \in 1..Len(s)}

IndexOf(s, c) == CHOOSE i \in 1..Len(s) : s[i] = c

\* \s of the re module, and the characters str.strip() removes
IsSpace(c) == c \in {" ", "\t", "\n", "\r", "\f"}

\* \d of the re module on str, and str.isdigit() on the digits of the model
IsDigit(c) ==
  c \in Range(AsciiDigits) \cup Range(PersianDigits) \cup Range(ArabicIndicDigits)

\* [A-Za-z]
IsLatin(c) == c \in Range(LowerLetters) \cup Range(UpperLetters)

\* \w of the re module on str
IsWord(c) == IsLatin(c) \/ IsDigit(c) \/ c \in {"_", "U+00B5"}

LowerChar(c) == IF c \in Range(UpperLetters) THEN LowerLetters[IndexOf(UpperLetters, c)] ELSE c

UpperChar(c) == IF c \in Range(LowerLetters) THEN UpperLetters[IndexOf(LowerLetters, c)] ELSE c

\* str.lower()
Lower(s) == [i \in 1..Len(s) |-> LowerChar(s[i])]

\* str.upper()
Upper(s) == [i \in 1..Len(s) |-> UpperChar(s[i])]

\* s[a:b] with 0-based Python bounds 0 <= a, b <= len(s)
Slice(s, a, b) == IF b <= a THEN << >> ELSE SubSeq(s, a + 1, b)

\* str.startswith / str.endswith
StartsWith(s, p) == Len(p) <= Len(s) /\ SubSeq(s, 1, Len(p)) = p

EndsWith(s, p) == Len(p) <= Len(s) /\ SubSeq(s, Len(s) - Len(p) + 1, Len(s)) = p

\* re.search of a literal: the literal occurs at 0-based offset k
OccursAt(s, p, k) == k + Len(p) <= Len(s) /\ SubSeq(s, k + 1, k + Len(p)) = p

\* the "in" operator on strings
Contains(s, p) == \E k \in 0..Len(s) : OccursAt(s, p, k)

\* str.find(c) for a single character: the least 0-based index, or -1
Find(s, c) ==
  IF c \in Range(s) THEN (CHOOSE i \in 1..Len(s) : s[i] = c /\ \A j \in 1..(i - 1) : s[j] # c) - 1
  ELSE -1

\* str.strip()
Strip(s) ==
  IF \A i \in 1..Len(s) : IsSpace(s[i]) THEN << >>
  ELSE LET first == CHOOSE i \in 1..Len(s) : ~IsSpace(s[i]) /\ \A j \in 1..(i - 1) : IsSpace(s[j])
           last == CHOOSE i \in 1..Len(s) : ~IsSpace(s[i]) /\ \A j \in (i + 1)..Len(s) : IsSpace(s[j])
       IN SubSeq(s, first, last)

RECURSIVE CollapseSpace(_)
\* re.sub(r"\s+", " ", text): every maximal run of whitespace becomes one space
CollapseSpace(s) ==
  IF s = << >> THEN << >>
  ELSE IF IsSpace(Head(s))
       THEN IF Len(s) > 1 /\ IsSpace(s[2]) THEN CollapseSpace(Tail(s))
            ELSE <<" ">> \o CollapseSpace(Tail(s))
       ELSE <<Head(s)>> \o CollapseSpace(Tail(s))

normalize_space(text) == Strip(CollapseSpace(text))

\* str.translate(PERSIAN_ARABIC_DIGIT_TRANSLATION) of one character
TranslateDigit(c) ==
  IF c \in Range(PersianDigits) THEN AsciiDigits[IndexOf(PersianDigits, c)]
  ELSE IF c \in Range(ArabicIndicDigits) THEN AsciiDigits[IndexOf(ArabicIndicDigits, c)]
  ELSE c

to_ascii_digits(text) == [i \in 1..Len(text) |-> TranslateDigit(text[i])]

RECURSIVE SplitLines(_)
\* str.splitlines(): the lines between line breaks, no empty last line
SplitLines(s) ==
  IF s = << >> THEN << >>
  ELSE IF \E i \in 1..Len(s) : s[i] \in {"\n", "\r", "\f"}
       THEN LET brk == CHOOSE i \in 1..Len(s) :
                         s[i] \in {"\n", "\r", "\f"} /\ \A j \in 1..(i - 1) : s[j] \notin {"\n", "\r", "\f"}
                \* "\r\n" is one line break
                skip == IF s[brk] = "\r" /\ brk < Len(s) /\ s[brk + 1] = "\n" THEN brk + 1 ELSE brk
            IN <<SubSeq(s, 1, brk - 1)>> \o SplitLines(SubSeq(s, skip + 1, Len(s)))
       ELSE <<s>>

AllDigits(s) == \A i \in 1..Len(s) : IsDigit(s[i])

HasSign(s) == Len(s) > 0 /\ s[1] \in {"+", "-"}

Unsigned(s) == IF HasSign(s) THEN Tail(s) ELSE s

(***************************************************************************)
(* The compiled patterns of the classifier.                                *)
(***************************************************************************)
DateSeparators == {"/", "-"}

\* the mutant: the middle segment has two digits, never one
DATE_RE_TwoDigitMiddle(s) ==
  \E i, j \in 1..Len(s) :
    /\ i < j
    /\ s[i] \in DateSeparators /\ s[j] \in DateSeparators
    /\ (i - 1) \in 1..4 /\ AllDigits(SubSeq(s, 1, i - 1))
    /\ (j - i - 1) = 2 /\ AllDigits(SubSeq(s, i + 1, j - 1))
    /\ (Len(s) - j) \in 1..4 /\ AllDigits(SubSeq(s, j + 1, Len(s)))

\* DATE_RE = ^\d{1,4}[/-]\d{1,2}[/-]\d{1,4}$ with fullmatch
DATE_RE(s) ==
  \E i, j \in 1..Len(s) :
    /\ i < j
    /\ s[i] \in DateSeparators /\ s[j] \in DateSeparators
    /\ (i - 1) \in 1..4 /\ AllDigits(SubSeq(s, 1, i - 1))
    /\ (j - i - 1) \in 1..2 /\ AllDigits(SubSeq(s, i + 1, j - 1))
    /\ (Len(s) - j) \in 1..4 /\ AllDigits(SubSeq(s, j + 1, Len(s)))

\* INT_RE = ^[+-]?\d+$ with fullmatch
INT_RE(s) == LET d == Unsigned(s) IN Len(d) >= 1 /\ AllDigits(d)

\* FLOAT_RE = ^[+-]?\d+[.,]\d+$ with fullmatch
FLOAT_RE(s) ==
  LET d == Unsigned(s)
  IN \E i \in 2..(Len(d) - 1) :
       /\ d[i] \in {".", ","}
       /\ AllDigits(SubSeq(d, 1, i - 1))
       /\ AllDigits(SubSeq(d, i + 1, Len(d)))

RangeMarkers ==
  { <<"<", "=">>, <<">", "=">>, <<"m", "a", "x">>, <<"m", "i", "n">>,
    <<"U+00B1">>, <<" ", "t", "o", " ">>, <<"~">> }

\* RANGE_RE = (<=|>=|max|min|U+00B1|[+-]\s*\d| to |~) with search, IGNORECASE
RANGE_RE(s) ==
  \/ \E m \in RangeMarkers : Contains(Lower(s), m)
  \/ \E i, j \in 1..Len(s) :
       /\ i < j
       /\ s[i] \in {"+", "-"}
       /\ \A k \in (i + 1)..(j - 1) : IsSpace(s[k])
       /\ IsDigit(s[j])

MeasurementUnits ==
  { <<"m", "m">>, <<"c", "m">>, <<"u", "m">>, <<"U+00B5", "m">>, <<"n", "m">>,
    <<"h", "r", "c">>, <<"h", "v">>, <<"k", "g">>, <<"g">>, <<"%">> }

\* \b at 0-based offset k of s: exactly one side of the offset is a word character
WordBoundary(s, k) ==
  LET before == k >= 1 /\ IsWord(s[k])
      after == k < Len(s) /\ IsWord(s[k + 1])
  IN before # after

\* MEASUREMENT_RE = \d+\s*(mm|cm|um|U+00B5m|nm|hrc|hv|kg|g|%)\b with search, IGNORECASE
MEASUREMENT_RE(s) ==
  \E i \in 1..Len(s) : \E k \in i..Len(s) : \E u \in MeasurementUnits :
    /\ IsDigit(s[i])
    /\ \A j \in (i + 1)..k : IsSpace(s[j])
    /\ OccursAt(Lower(s), u, k)
    /\ WordBoundary(s, k + Len(u))

\* CODE_RE = ^[A-Za-z]{1,8}\s*[-/]?\s*\d[\w./-]*$ with fullmatch
CODE_RE(s) ==
  \E a \in 1..8 : \E d \in (a + 1)..Len(s) :
    /\ \A i \in 1..a : IsLatin(s[i])
    /\ \A i \in (a + 1)..(d - 1) : IsSpace(s[i]) \/ s[i] \in {"-", "/"}
    /\ Cardinality({i \in (a + 1)..(d - 1) : s[i] \in {"-", "/"}}) <= 1
    /\ IsDigit(s[d])
    /\ \A i \in (d + 1)..Len(s) : IsWord(s[i]) \/ s[i] \in {".", "/", "-"}

\* SINGLE_LATIN_RE = ^[A-Za-z]$ with fullmatch
SINGLE_LATIN_RE(s) == Len(s) = 1 /\ IsLatin(s[1])

PLACEHOLDER_VALUES ==
  { <<"-">>, <<"-", "-">>, <<"-", "-", "-">>, <<"_">>, <<"*">>,
    <<"N", "/", "A">>, <<"n", "/", "a">>, <<"N", "A">>, <<"n", "a">> }

BooleanWords ==
  { <<"t", "r", "u", "e">>, <<"f", "a", "l", "s", "e">>, <<"y", "e", "s">>, <<"n", "o">> }

\* the mutant: the range test is made before the integer and float tests
infer_text_type_range_first(value) ==
  LET normalized == normalize_space(value)
      ascii_digits == to_ascii_digits(normalized)
      lower == Lower(ascii_digits)
  IN IF normalized = << >> THEN "empty"
     ELSE IF normalized \in PLACEHOLDER_VALUES THEN "placeholder"
     ELSE IF lower \in BooleanWords THEN "boolean"
     ELSE IF DATE_RE(ascii_digits) THEN "date"
     ELSE IF MEASUREMENT_RE(ascii_digits) THEN "measurement"
     ELSE IF RANGE_RE(ascii_digits) /\ \E i \in 1..Len(ascii_digits) : IsDigit(ascii_digits[i])
          THEN "range_or_tolerance"
     ELSE IF INT_RE(ascii_digits) THEN "integer"
     ELSE IF FLOAT_RE(ascii_digits) THEN "float"
     ELSE IF CODE_RE(ascii_digits) THEN "code"
     ELSE IF SINGLE_LATIN_RE(ascii_digits) THEN "enum"
     ELSE "text"

infer_text_type(value) ==
  LET normalized == normalize_space(value)
      ascii_digits == to_ascii_digits(normalized)
      lower == Lower(ascii_digits)
  IN IF normalized = << >> THEN "empty"
     ELSE IF normalized \in PLACEHOLDER_VALUES THEN "placeholder"
     ELSE IF lower \in BooleanWords THEN "boolean"
     ELSE IF DATE_RE(ascii_digits) THEN "date"
     ELSE IF MEASUREMENT_RE(ascii_digits) THEN "measurement"
     ELSE IF INT_RE(ascii_digits) THEN "integer"
     ELSE IF FLOAT_RE(ascii_digits) THEN "float"
     ELSE IF CODE_RE(ascii_digits) THEN "code"
     ELSE IF RANGE_RE(ascii_digits) /\ \E i \in 1..Len(ascii_digits) : IsDigit(ascii_digits[i])
          THEN "range_or_tolerance"
     ELSE IF SINGLE_LATIN_RE(ascii_digits) THEN "enum"
     ELSE "text"

(***************************************************************************)
(* State.  frame is the call of one of the pure functions (its argument,   *)
(* and its result once it has returned); table_element to                  *)
(* inferred_type_histogram are the locals and the result of one            *)
(* parse_table call; analysis is the call of analyze_docx (its arguments,  *)
(* its locals and its position) and batch is the run of main (its          *)
(* arguments, its loop position, failures and the reports written).        *)
(***************************************************************************)
VARIABLES frame, table_element, table_index, pc, grid_columns, rows, sections,
          column_schema, checkbox_fields, key_value_fields, inferred_type_histogram,
          analysis, batch

vars ==
  <<frame, table_element, table_index, pc, grid_columns, rows, sections,
    column_schema, checkbox_fields, key_value_fields, inferred_type_histogram,
    analysis, batch>>

\* no analyze_docx call and no run of main
NoAnalysis == [pc |-> "idle"]

NoBatch == [pc |-> "idle"]

DocumentIdle == analysis = NoAnalysis /\ batch = NoBatch

documentVars == <<analysis, batch>>

NoFrame == [fn |-> None, arg |-> << >>, returned |-> FALSE, ret |-> << >>]

\* a call that has not returned; its return slot holds the empty sequence
Call(fn, arg) == [fn |-> fn, arg |-> arg, returned |-> FALSE, ret |-> << >>]

Return(value) ==
  frame' = [fn |-> frame.fn, arg |-> frame.arg, returned |-> TRUE, ret |-> value]

NoTable == [tblGrid |-> << >>, trs |-> << >>]

\* the variables of parse_table while no table is being parsed
TableIdle ==
  /\ table_element = NoTable
  /\ table_index = 0
  /\ pc = "idle"
  /\ grid_columns = << >>
  /\ rows = << >>
  /\ sections = << >>
  /\ column_schema = << >>
  /\ checkbox_fields = << >>
  /\ key_value_fields = << >>
  /\ inferred_type_histogram = << >>

tableVars ==
  <<table_element, table_index, pc, grid_columns, rows, sections,
    column_schema, checkbox_fields, key_value_fields, inferred_type_histogram>>

\* all sequences over S of length at most n
SeqsUpTo(S, n) == UNION {[1..k -> S] : k \in 0..n}

(***************************************************************************)
(* infer_text_type applied to one text.                                    *)
(***************************************************************************)
MaxTextLen == 3

TextAlphabet == {"1", "U+06F2", "-", "/", ".", "A", "g", " ", "%", "~"}

NamedTexts ==
  { << >>,
    <<"-">>, <<"-", "-", "-">>, <<"_">>, <<"*">>, <<"N", "/", "A">>, <<"n", "a">>,
    <<"1", "2", ".", "5">>, <<"+", "3", ",", "1">>,
    <<"U+06F1", "U+06F2">>, <<"U+0661", "U+0662">>, <<"-", "7">>,
    <<"A">>, <<"z">>,
    <<"A", "B", "-", "1", "2", "3">>, <<"x", " ", "/", " ", "9", ".", "a">>,
    <<"2", "0", "2", "4", "/", "0", "1", "/", "1", "5">>, <<"1", "-", "2", "-", "3">>,
    <<"U+06F1", "/", "U+06F2", "/", "U+06F3">>,
    <<"T", "r", "u", "e">>, <<"n", "o">>, <<"Y", "E", "S">>,
    <<"1", "2", " ", "m", "m">>, <<"5", "K", "G">>, <<"1", "2", ".", "4", " ", "k", "g">>,
    <<"A", "1", "m", "m">>, <<"1", "0", "%">>, <<"1", "0", "%", "x">>, <<"5", "g", "x">>,
    <<"<", "=", "3">>, <<"M", "a", "x", " ", "5">>, <<"1", " ", "t", "o", " ", "2">>,
    <<"U+00B1", "2">>, <<"m", "a", "x">>, <<"a", " ", "-", " ", "1">>,
    <<" ", "\t", " ">>, <<" ", "4", "\n", "2", " ">>,
    <<"W", "e", "i", "g", "h", "t">>, <<"a", "b">>,
    <<"n", "/", "a">>, <<"N", "/", "a">>, <<"n", "/", "A">>, <<"-", "-">>,
    <<"1", "2", "m", "m">>, <<"5", "k", "g">>, <<"6", "0", "h", "r", "c">>,
    <<"1", "0", "0", "%">>, <<"3", "U+00B5", "m">>, <<"7", "H", "V">>,
    <<"1", "/", "1", "2", "3", "/", "1">>, <<"1", "-", "1", "2", "3", "4", "-", "1">>,
    <<"2", "0", "2", "4", "/", "1", "2", "3", "/", "1", "5">>,
    <<"1", "2", "/", "1", "/", "2", "0", "2", "4">>,
    <<"U+06F1", "U+06F4", "U+06F0", "U+06F2", "/", "U+06F0", "U+06F5", "/", "U+06F1", "U+06F2">>,
    <<"1", "/", "1", "2", "3", "4", "5", "/", "1">>, <<"1", "2", "3", "4", "5", "/", "1", "/", "1">> }

TextInputs == NamedTexts \cup SeqsUpTo(TextAlphabet, MaxTextLen)

InitText ==
  /\ frame \in {Call("infer_text_type", t) : t \in TextInputs}
  /\ TableIdle
  /\ DocumentIdle

CallInferTextType ==
  /\ frame.fn = "infer_text_type"
  /\ ~frame.returned
  /\ Return(infer_text_type(frame.arg))
  /\ UNCHANGED <<tableVars, documentVars>>

NextText == CallInferTextType

SpecText == InitText /\ [][NextText]_vars

TagOrder ==
  <<"empty", "placeholder", "boolean", "date", "measurement", "integer", "float",
    "code", "range_or_tolerance", "enum", "text">>

\* the test of one tag on the whitespace-normalized, digit-transliterated text
TagTest(tag, raw) ==
  LET t == to_ascii_digits(normalize_space(raw))
  IN CASE tag = "empty" -> t = << >>
       [] tag = "placeholder" -> t \in PLACEHOLDER_VALUES
       [] tag = "boolean" -> Lower(t) \in BooleanWords
       [] tag = "date" -> DATE_RE(t)
       [] tag = "measurement" -> MEASUREMENT_RE(t)
       [] tag = "integer" -> INT_RE(t)
       [] tag = "float" -> FLOAT_RE(t)
       [] tag = "code" -> CODE_RE(t)
       [] tag = "range_or_tolerance" -> RANGE_RE(t) /\ \E i \in 1..Len(t) : IsDigit(t[i])
       [] tag = "enum" -> SINGLE_LATIN_RE(t)
       [] OTHER -> TRUE

FirstMatchingTag(raw) ==
  TagOrder[CHOOSE i \in 1..Len(TagOrder) :
             TagTest(TagOrder[i], raw) /\ \A j \in 1..(i - 1) : ~TagTest(TagOrder[j], raw)]

SpecExamples ==
  { <<<<"-">>, "placeholder">>,
    <<<<"1", "2", ".", "5">>, "float">>,
    <<<<"U+06F1", "U+06F2">>, "integer">>,
    <<<<"U+0661", "U+0662">>, "integer">>,
    <<<<"A">>, "enum">>,
    <<<<"A", "B", "-", "1", "2", "3">>, "code">>,
    <<<<"2", "0", "2", "4", "/", "0", "1", "/", "1", "5">>, "date">>,
    <<<< >>, "empty">> }

\* C7: infer_text_type returns exactly one tag, the first tag of the fixed order
\* empty, placeholder, boolean, date, measurement, integer, float, code,
\* range_or_tolerance, enum, text whose test matches the normalized, transliterated
\* text; "-" is placeholder, "12.5" float, Persian/Arabic-Indic "12" integer, "A" enum,
\* "AB-123" code, "2024/01/15" date and "" empty.
C7_FirstMatchingTag ==
  (frame.fn = "infer_text_type" /\ frame.returned) =>
    /\ frame.ret \in Range(TagOrder)
    /\ frame.ret = FirstMatchingTag(frame.arg)
    /\ \A e \in SpecExamples : frame.arg = e[1] => frame.ret = e[2]

\* a text that two tests match (a date that also holds a signed number) is classified
C7_Witness ==
  /\ frame.fn = "infer_text_type" /\ frame.returned
  /\ frame.arg = <<"1", "-", "2", "-", "3">>
  /\ TagTest("range_or_tolerance", frame.arg)
  /\ frame.ret = "date"

(***************************************************************************)
(* Symbols: checkbox_state_for_symbol and extract_symbols.  The three      *)
(* values True, False, None of checkbox_state are the strings "True",      *)
(* "False", "None".  A w:sym element is [font, char]; an absent attribute  *)
(* is the empty text, which is what attrib.get(...) or "" makes of it.     *)
(***************************************************************************)
normalize_symbol_char(symbol_char) ==
  LET code == Upper(Strip(symbol_char))
  IN IF StartsWith(code, <<"0", "X">>) THEN Slice(code, 2, Len(code)) ELSE code

Wingdings2 == <<"w", "i", "n", "g", "d", "i", "n", "g", "s", " ", "2">>

\* the mutant: the font name is matched without lowercasing it
FontIsWingdings2CaseSensitive(font) == Contains(font, Wingdings2)

FontIsWingdings2(font) == Contains(Lower(font), Wingdings2)

checkbox_state_for_symbol(font, symbol_char) ==
  IF ~FontIsWingdings2(font) THEN "None"
  ELSE LET code == normalize_symbol_char(symbol_char)
       IN IF EndsWith(code, <<"A", "2">>) THEN "True"
          ELSE IF EndsWith(code, <<"A", "3">>) THEN "False"
          ELSE "None"

extract_symbols(element) ==
  [i \in 1..Len(element) |->
    LET font == Strip(element[i].font)
        symbol_char == Strip(element[i].char)
        checkbox_state == checkbox_state_for_symbol(font, symbol_char)
    IN [font |-> font,
        char |-> normalize_symbol_char(symbol_char),
        checkbox_state |-> checkbox_state,
        is_checkbox_symbol |-> checkbox_state # "None"]]

MaxCodeLen == 3

CodeAlphabet == {"0", "x", "A", "a", "2", "3", " "}

SymbolFonts ==
  { << >>,
    <<"W", "i", "n", "g", "d", "i", "n", "g", "s", " ", "2">>,
    <<"W", "I", "N", "G", "D", "I", "N", "G", "S", " ", "2">>,
    <<" ", "w", "i", "n", "g", "d", "i", "n", "g", "s", " ", "2", " ">>,
    <<"M", "S", " ", "W", "i", "n", "g", "d", "i", "n", "g", "s", " ", "2", "b">>,
    <<"W", "i", "n", "g", "d", "i", "n", "g", "s">>,
    <<"W", "i", "n", "g", "d", "i", "n", "g", "s", "2">>,
    <<"W", "i", "n", "g", "d", "i", "n", "g", "s", " ", "3">>,
    <<"S", "y", "m", "b", "o", "l">> }

NamedCodes ==
  { <<"F", "0", "A", "2">>, <<"f", "0", "a", "3">>, <<"0", "x", "F", "0", "A", "2">>,
    <<"0", "X", "0", "0", "A", "3">>, <<"F", "0", "A", "4">>, <<"F", "0", "2", "A">> }

SymbolCodes == NamedCodes \cup SeqsUpTo(CodeAlphabet, MaxCodeLen)

SymElements == [font : SymbolFonts, char : SymbolCodes]

NamedSymElements == [font : SymbolFonts, char : NamedCodes]

\* the w:sym elements of one cell: none, one, or two of the named ones
SymbolInputs ==
  {<< >>} \cup {<<e>> : e \in SymElements}
          \cup {<<e1, e2>> : e1 \in NamedSymElements, e2 \in NamedSymElements}

InitSymbols ==
  /\ frame \in {Call("extract_symbols", e) : e \in SymbolInputs}
  /\ TableIdle
  /\ DocumentIdle

CallExtractSymbols ==
  /\ frame.fn = "extract_symbols"
  /\ ~frame.returned
  /\ Return(extract_symbols(frame.arg))
  /\ UNCHANGED <<tableVars, documentVars>>

NextSymbols == CallExtractSymbols

SpecSymbols == InitSymbols /\ [][NextSymbols]_vars

\* the font attribute contains "wingdings 2" in any letter case
ClaimedCheckboxFont(font) ==
  \E k \in 0..Len(font) :
    /\ k + Len(Wingdings2) <= Len(font)
    /\ \A i \in 1..Len(Wingdings2) : LowerChar(font[k + i]) = Wingdings2[i]

\* the char attribute, uppercased and without a "0x" prefix, ends with "A" and digit
ClaimedCodeEnds(char, digit) ==
  LET c == Strip(char)
      n == Len(c)
      prefixed == n >= 2 /\ c[1] = "0" /\ c[2] \in {"x", "X"}
  IN /\ n >= (IF prefixed THEN 4 ELSE 2)
     /\ c[n - 1] \in {"a", "A"}
     /\ c[n] = digit

ClaimedCheckboxState(e) ==
  IF ClaimedCheckboxFont(e.font) /\ ClaimedCodeEnds(e.char, "2") THEN "True"
  ELSE IF ClaimedCheckboxFont(e.font) /\ ClaimedCodeEnds(e.char, "3") THEN "False"
  ELSE "None"

\* C8: a symbol is checked when its font contains "wingdings 2" in any case and its
\* code, uppercased and without a "0x" prefix, ends with "A2", unchecked when it ends
\* with "A3", and not a checkbox for every other font or code; is_checkbox_symbol is
\* set exactly when the state is not None.
C8_CheckboxMapping ==
  (frame.fn = "extract_symbols" /\ frame.returned) =>
    /\ Len(frame.ret) = Len(frame.arg)
    /\ \A i \in 1..Len(frame.arg) :
         /\ frame.ret[i].checkbox_state = ClaimedCheckboxState(frame.arg[i])
         /\ frame.ret[i].is_checkbox_symbol = (frame.ret[i].checkbox_state # "None")

\* an upper-case Wingdings 2 font with a lower-case code is an unchecked box
C8_Witness ==
  /\ frame.fn = "extract_symbols" /\ frame.returned
  /\ Len(frame.arg) = 1
  /\ frame.arg[1].font = <<"W", "I", "N", "G", "D", "I", "N", "G", "S", " ", "2">>
  /\ frame.arg[1].char = <<"f", "0", "a", "3">>
  /\ frame.ret[1].checkbox_state = "False"
  /\ frame.ret[1].is_checkbox_symbol

(***************************************************************************)
(* extract_key_values applied to one cell text.                            *)
(***************************************************************************)
HalfWidthColon == ":"

FullWidthColon == "U+FF1A"

SetMin(S) == CHOOSE x \in S : \A y \in S : x <= y

\* the body of the loop of extract_key_values for one line: the pairs it appends
KeyValuesOfLine(raw_line) ==
  LET line == normalize_space(raw_line)
      colon_positions ==
        {pos \in {Find(line, HalfWidthColon), Find(line, FullWidthColon)} : pos > 0}
  IN IF line = << >> THEN << >>
     ELSE IF colon_positions = {} THEN << >>
     ELSE LET split_at == SetMin(colon_positions)
              key == Strip(Slice(line, 0, split_at))
              value == Strip(Slice(line, split_at + 1, Len(line)))
          IN IF key # << >> THEN <<[key |-> key, value |-> value]>> ELSE << >>

RECURSIVE KeyValuesOfLines(_)
KeyValuesOfLines(lines) ==
  IF lines = << >> THEN << >>
  ELSE KeyValuesOfLine(Head(lines)) \o KeyValuesOfLines(Tail(lines))

extract_key_values(text) == KeyValuesOfLines(SplitLines(text))

MaxKeyValueLen == 4

KeyValueAlphabet == {"a", "7", ":", "U+FF1A", " ", "\n"}

WeightText ==
  <<"W", "e", "i", "g", "h", "t", ":", " ", "1", "2", ".", "4", " ", "k", "g">>

NamedKeyValueTexts ==
  { WeightText,
    <<"k", "U+FF1A", "v", ":", "w">>,
    <<"k", ":", "v", "U+FF1A", "w">>,
    <<":", "a", "U+FF1A", "b", "\n", "c", ":", "d">>,
    <<" ", "k", " ", " ", ":", " ", "v", " ", "\n", "\n", "n", "o">>,
    <<"a", ":", "1", "\r", "\n", "b", ":", "2">> }

KeyValueInputs == NamedKeyValueTexts \cup SeqsUpTo(KeyValueAlphabet, MaxKeyValueLen)

InitKeyValues ==
  /\ frame \in {Call("extract_key_values", t) : t \in KeyValueInputs}
  /\ TableIdle
  /\ DocumentIdle

CallExtractKeyValues ==
  /\ frame.fn = "extract_key_values"
  /\ ~frame.returned
  /\ Return(extract_key_values(frame.arg))
  /\ UNCHANGED <<tableVars, documentVars>>

NextKeyValues == CallExtractKeyValues

SpecKeyValues == InitKeyValues /\ [][NextKeyValues]_vars

IsColon(c) == c \in {HalfWidthColon, FullWidthColon}

\* the 1-based index of the earliest colon of either width in a line that has one
EarliestColon(line) ==
  CHOOSE i \in 1..Len(line) : IsColon(line[i]) /\ \A j \in 1..(i - 1) : ~IsColon(line[j])

\* the pairs one line yields when it is split at its earliest colon of either width
ClaimedPairsOfLine(raw_line) ==
  LET line == normalize_space(raw_line)
  IN IF line = << >> \/ ~\E i \in 1..Len(line) : IsColon(line[i]) THEN << >>
     ELSE LET at == EarliestColon(line)
              key == Strip(SubSeq(line, 1, at - 1))
              value == Strip(SubSeq(line, at + 1, Len(line)))
          IN IF key = << >> THEN << >> ELSE <<[key |-> key, value |-> value]>>

RECURSIVE ClaimedPairs(_)
ClaimedPairs(lines) ==
  IF lines = << >> THEN << >>
  ELSE ClaimedPairsOfLine(Head(lines)) \o ClaimedPairs(Tail(lines))

\* C9: extract_key_values splits each non-blank line at the earliest colon of either
\* width, key before it and value after it; a line with no colon, or with an empty
\* key before its earliest colon, yields no pair.
C9_SplitAtEarliestColon ==
  (frame.fn = "extract_key_values" /\ frame.returned) =>
    frame.ret = ClaimedPairs(SplitLines(frame.arg))

(***************************************************************************)
(* parse_table.  Its input is the w:tbl element:                           *)
(*   table  [tblGrid: the w:w attribute of each w:gridCol, trs: rows]      *)
(*   w:tr   [gridBefore: the w:val of w:trPr/w:gridBefore, tcs: cells]     *)
(*   w:tc   [gridSpan: the w:val of w:gridSpan, vMerge, paras, syms]       *)
(* An attribute is a text, the empty text when the attribute or its        *)
(* element is absent (the code reads both through a default).  paras is    *)
(* the text of each w:p of the cell (w:tab and w:br being the characters   *)
(* they stand for) and syms its w:sym elements.  Of a parsed cell the      *)
(* fields width_twips, text_lines and contains_drawing, which nothing      *)
(* reads, are left out.                                                    *)
(***************************************************************************)
NoVMergeElement == "<no w:vMerge>"

NoValAttribute == "<no w:val>"

\* merge_anchor_row = None
NoRow == -1

\* int(x) succeeds: optional whitespace around an optionally signed run of digits
IsIntLiteral(s) == INT_RE(Strip(s))

RECURSIVE DigitsValue(_)
DigitsValue(d) ==
  IF d = << >> THEN 0
  ELSE 10 * DigitsValue(SubSeq(d, 1, Len(d) - 1))
         + (IndexOf(AsciiDigits, TranslateDigit(d[Len(d)])) - 1)

\* int(x) for a text int() accepts
IntOf(s) ==
  LET t == Strip(s)
  IN IF t[1] = "-" THEN 0 - DigitsValue(Tail(t)) ELSE DigitsValue(Unsigned(t))

\* int(attrib.get(name, default) or default) raises ValueError
AttrRaises(a) == a # << >> /\ ~IsIntLiteral(a)

\* int(attrib.get(name, default) or default)
AttrInt(a, default) == IF a = << >> THEN default ELSE IntOf(a)

RECURSIVE ParagraphLines(_)
\* the stripped, non-blank paragraph texts
ParagraphLines(paras) ==
  IF paras = << >> THEN << >>
  ELSE LET paragraph_text == Strip(Head(paras))
       IN (IF paragraph_text # << >> THEN <<paragraph_text>> ELSE << >>)
            \o ParagraphLines(Tail(paras))

RECURSIVE JoinLines(_)
\* "\n".join(lines)
JoinLines(lines) ==
  IF lines = << >> THEN << >>
  ELSE IF Len(lines) = 1 THEN lines[1]
  ELSE lines[1] \o <<"\n">> \o JoinLines(Tail(lines))

RECURSIVE Flatten(_)
\* the concatenation of a sequence of sequences
Flatten(ss) == IF ss = << >> THEN << >> ELSE Head(ss) \o Flatten(Tail(ss))

extract_text(paras) ==
  LET lines == ParagraphLines(paras)
  IN IF lines # << >> THEN Strip(JoinLines(lines)) ELSE Strip(Flatten(paras))

\* v_merge: None without a w:vMerge element, else its w:val, "continue" by default
VMergeOf(tc) ==
  IF tc.vMerge = NoVMergeElement THEN None
  ELSE IF tc.vMerge = NoValAttribute THEN "continue"
  ELSE tc.vMerge

\* the mutant: the cell is recorded after the cursor has moved past it
CellOfAfterAdvance(tc, row_index, cell_index, cursor) ==
  LET col_span == AttrInt(tc.gridSpan, 1)
      text == extract_text(tc.paras)
  IN [row_index |-> row_index, cell_index |-> cell_index,
      col_start |-> cursor + col_span, col_end |-> cursor + col_span + col_span - 1,
      col_span |-> col_span, v_merge |-> VMergeOf(tc),
      row_span |-> 1, merge_anchor_row |-> NoRow,
      text |-> text, symbols |-> extract_symbols(tc.syms),
      key_values |-> extract_key_values(text), inferred_type |-> infer_text_type(text)]

\* the cell dict appended for the w:tc element at the cursor
CellOf(tc, row_index, cell_index, cursor) ==
  LET col_span == AttrInt(tc.gridSpan, 1)
      text == extract_text(tc.paras)
  IN [row_index |-> row_index, cell_index |-> cell_index,
      col_start |-> cursor, col_end |-> cursor + col_span - 1,
      col_span |-> col_span, v_merge |-> VMergeOf(tc),
      row_span |-> 1, merge_anchor_row |-> NoRow,
      text |-> text, symbols |-> extract_symbols(tc.syms),
      key_values |-> extract_key_values(text), inferred_type |-> infer_text_type(text)]

RECURSIVE ParseCells(_, _, _, _)
\* the loop over the w:tc elements of one row, from cell_index on
ParseCells(tcs, row_index, cell_index, cursor) ==
  IF cell_index >= Len(tcs) THEN << >>
  ELSE <<CellOf(tcs[cell_index + 1], row_index, cell_index, cursor)>>
         \o ParseCells(tcs, row_index, cell_index + 1,
                       cursor + AttrInt(tcs[cell_index + 1].gridSpan, 1))

RECURSIVE SumSeq(_)
SumSeq(ns) == IF ns = << >> THEN 0 ELSE Head(ns) + SumSeq(Tail(ns))

\* the row dict appended for one w:tr element
RowOf(tr, row_index) ==
  LET grid_before == AttrInt(tr.gridBefore, 0)
      row_cells == ParseCells(tr.tcs, row_index, 0, grid_before)
  IN [row_index |-> row_index,
      grid_before |-> grid_before,
      cell_count |-> Len(row_cells),
      cells |-> row_cells,
      total_col_span |->
        grid_before + SumSeq([i \in 1..Len(row_cells) |-> row_cells[i].col_span]),
      non_empty_cell_count |->
        Cardinality({i \in 1..Len(row_cells) : normalize_space(row_cells[i].text) # << >>}),
      symbol_count |-> SumSeq([i \in 1..Len(row_cells) |-> Len(row_cells[i].symbols)]),
      checkbox_count |->
        SumSeq([i \in 1..Len(row_cells) |->
                 Cardinality({k \in 1..Len(row_cells[i].symbols) :
                                row_cells[i].symbols[k].is_checkbox_symbol})])]

\* a w:gridBefore or w:gridSpan value of the row makes int() raise
RowRaises(tr) ==
  \/ AttrRaises(tr.gridBefore)
  \/ \E i \in 1..Len(tr.tcs) : AttrRaises(tr.tcs[i].gridSpan)

(***************************************************************************)
(* annotate_vertical_merges.  Row and cell indices are the 0-based indices *)
(* of the code; row i of the code is rows[i + 1].                          *)
(***************************************************************************)
Slot(cell) == <<cell.col_start, cell.col_span>>

\* slot in by_row_slot[row]
HasSlot(row, slot) == \E i \in 1..Len(row.cells) : Slot(row.cells[i]) = slot

\* by_row_slot[row][slot]: the last cell of the row stored under the slot
SlotCell(row, slot) ==
  row.cells[CHOOSE i \in 1..Len(row.cells) :
              /\ Slot(row.cells[i]) = slot
              /\ \A j \in (i + 1)..Len(row.cells) : Slot(row.cells[j]) # slot]

\* the mutant: the cell of the row directly above is taken as the anchor, whatever
\* its merge marker
AnchorSearchRowAbove(rs, slot, prev_index) ==
  IF prev_index < 0 THEN NoRow
  ELSE IF ~HasSlot(rs[prev_index + 1], slot) THEN NoRow
  ELSE prev_index

RECURSIVE AnchorSearch(_, _, _)
\* the upward loop of a "continue" cell, from prev_index down to 0
AnchorSearch(rs, slot, prev_index) ==
  IF prev_index < 0 THEN NoRow
  ELSE IF ~HasSlot(rs[prev_index + 1], slot) THEN NoRow
  ELSE IF SlotCell(rs[prev_index + 1], slot).v_merge # "continue" THEN prev_index
  ELSE AnchorSearch(rs, slot, prev_index - 1)

RECURSIVE SpanScanThroughGaps(_, _, _)
\* the mutant: a row without a cell in the slot is passed over, the scan goes on
SpanScanThroughGaps(rs, slot, next_index) ==
  IF next_index >= Len(rs) THEN 0
  ELSE IF ~HasSlot(rs[next_index + 1], slot)
       THEN SpanScanThroughGaps(rs, slot, next_index + 1)
  ELSE IF SlotCell(rs[next_index + 1], slot).v_merge # "continue" THEN 0
  ELSE 1 + SpanScanThroughGaps(rs, slot, next_index + 1)

RECURSIVE SpanScan(_, _, _)
\* the downward loop of a cell that is not "continue": the increments of span
SpanScan(rs, slot, next_index) ==
  IF next_index >= Len(rs) THEN 0
  ELSE IF ~HasSlot(rs[next_index + 1], slot) THEN 0
  ELSE IF SlotCell(rs[next_index + 1], slot).v_merge # "continue" THEN 0
  ELSE 1 + SpanScan(rs, slot, next_index + 1)

\* the mutant: span is counted from 0 instead of 1
AnnotateCellSpanFromZero(rs, row_index, cell) ==
  IF cell.v_merge = "continue"
  THEN [cell EXCEPT !.merge_anchor_row = AnchorSearch(rs, Slot(cell), row_index - 1),
                    !.row_span = 0]
  ELSE LET span == SpanScan(rs, Slot(cell), row_index + 1)
       IN [cell EXCEPT !.merge_anchor_row = IF span > 1 THEN row_index ELSE NoRow,
                       !.row_span = span]

\* the mutant: the anchor of a run also has its merge marker rewritten to "restart"
AnnotateCellMarksRestart(rs, row_index, cell) ==
  IF cell.v_merge = "continue"
  THEN [cell EXCEPT !.merge_anchor_row = AnchorSearch(rs, Slot(cell), row_index - 1),
                    !.row_span = 0]
  ELSE LET span == 1 + SpanScan(rs, Slot(cell), row_index + 1)
       IN [cell EXCEPT !.merge_anchor_row = IF span > 1 THEN row_index ELSE NoRow,
                       !.row_span = span,
                       !.v_merge = IF span > 1 THEN "restart" ELSE @]

\* the body of the loop over the cells: the cell with its two fields assigned
AnnotateCell(rs, row_index, cell) ==
  IF cell.v_merge = "continue"
  THEN [cell EXCEPT !.merge_anchor_row = AnchorSearch(rs, Slot(cell), row_index - 1),
                    !.row_span = 0]
  ELSE LET span == 1 + SpanScan(rs, Slot(cell), row_index + 1)
       IN [cell EXCEPT !.merge_anchor_row = IF span > 1 THEN row_index ELSE NoRow,
                       !.row_span = span]

annotate_vertical_merges(rs) ==
  [r \in 1..Len(rs) |->
    [rs[r] EXCEPT !.cells =
      [c \in 1..Len(rs[r].cells) |-> AnnotateCell(rs, r - 1, rs[r].cells[c])]]]

(***************************************************************************)
(* infer_table_sections.  confidence is held in thousandths, the unit the  *)
(* code rounds it to.                                                      *)
(***************************************************************************)
NumericLikeTypes ==
  {"integer", "float", "date", "measurement", "range_or_tolerance", "code"}

\* the mutant: one value is enough for a data signal
has_data_signal_single_value(row) ==
  LET values ==
        SelectSeq([i \in 1..Len(row.cells) |-> row.cells[i].text],
                  LAMBDA text : /\ normalize_space(text) # << >>
                                /\ infer_text_type(text) # "placeholder")
      numeric_like ==
        Cardinality({i \in 1..Len(values) :
                      infer_text_type(normalize_space(values[i])) \in NumericLikeTypes})
  IN IF Len(values) < 1 THEN FALSE ELSE numeric_like >= 1

\* the mutant: two values are a data signal whatever their types
has_data_signal_untyped(row) ==
  LET values ==
        SelectSeq([i \in 1..Len(row.cells) |-> row.cells[i].text],
                  LAMBDA text : /\ normalize_space(text) # << >>
                                /\ infer_text_type(text) # "placeholder")
  IN Len(values) >= 2

has_data_signal(row) ==
  LET values ==
        SelectSeq([i \in 1..Len(row.cells) |-> row.cells[i].text],
                  LAMBDA text : /\ normalize_space(text) # << >>
                                /\ infer_text_type(text) # "placeholder")
      numeric_like ==
        Cardinality({i \in 1..Len(values) :
                      infer_text_type(normalize_space(values[i])) \in NumericLikeTypes})
  IN IF Len(values) < 2 THEN FALSE ELSE numeric_like >= 1

RECURSIVE GroupsOf(_, _)
\* the loop of longest_contiguous_group over indices[1:]
GroupsOf(groups, rest) ==
  IF rest = << >> THEN groups
  ELSE LET idx == Head(rest)
           last == groups[Len(groups)]
       IN IF idx = last[Len(last)] + 1
          THEN GroupsOf([groups EXCEPT ![Len(groups)] = Append(last, idx)], Tail(rest))
          ELSE GroupsOf(Append(groups, <<idx>>), Tail(rest))

\* the mutant: the groups are not told apart, all indices are returned
longest_contiguous_group_all_indices(indices) == indices

\* max(groups, key=len): the first of the longest
longest_contiguous_group(indices) ==
  IF indices = << >> THEN << >>
  ELSE LET groups == GroupsOf(<<<<indices[1]>>>>, Tail(indices))
       IN groups[CHOOSE g \in 1..Len(groups) :
                   /\ \A h \in 1..Len(groups) : Len(groups[h]) <= Len(groups[g])
                   /\ \A h \in 1..(g - 1) : Len(groups[h]) < Len(groups[g])]

\* list(range(a, b))
RangeList(a, b) == IF b > a THEN [i \in 1..(b - a) |-> a + i - 1] ELSE << >>

\* the column-span pattern of a row
PatternOf(row) == [i \in 1..Len(row.cells) |-> row.cells[i].col_span]

PatternCount(patterns, p) == Cardinality({i \in 1..Len(patterns) : patterns[i] = p})

\* the mutant: on a tie the pattern seen last is taken
MostCommonLastSeen(patterns) ==
  patterns[CHOOSE i \in 1..Len(patterns) :
    /\ \A j \in 1..Len(patterns) :
         PatternCount(patterns, patterns[j]) <= PatternCount(patterns, patterns[i])
    /\ \A j \in (i + 1)..Len(patterns) :
         PatternCount(patterns, patterns[j]) < PatternCount(patterns, patterns[i])
           \/ patterns[j] = patterns[i]
    /\ \A j \in 1..(i - 1) : patterns[j] # patterns[i]]

\* Counter(patterns).most_common(1)[0][0]: the most frequent, the first seen on a tie
MostCommon(patterns) ==
  patterns[CHOOSE i \in 1..Len(patterns) :
    /\ \A j \in 1..Len(patterns) :
         PatternCount(patterns, patterns[j]) <= PatternCount(patterns, patterns[i])
    /\ \A j \in 1..(i - 1) :
         PatternCount(patterns, patterns[j]) < PatternCount(patterns, patterns[i])]

Min2(a, b) == IF a <= b THEN a ELSE b

Max2(a, b) == IF a >= b THEN a ELSE b

\* the mutant: the quotient is truncated to three decimals
ConfidenceTruncated(count, total) == Min2(1000, (1000 * count) \div total)

\* the mutant: the quotient is rounded to two decimals
ConfidenceTwoDecimals(count, total) ==
  Min2(1000, 10 * ((200 * count + total) \div (2 * total)))

\* round(min(1.0, count / total), 3), in thousandths
Confidence(count, total) == Min2(1000, (2000 * count + total) \div (2 * total))

\* the mutant: the 60% are rounded up to a whole number of cells
dense_threshold_rounded_up(dominant_pattern) ==
  Max2(8, (Len(dominant_pattern) * 6 + 9) \div 10)

\* max(8, int(len(dominant_pattern) * 0.6))
dense_threshold(dominant_pattern) == Max2(8, (Len(dominant_pattern) * 6) \div 10)

infer_table_sections(rs) ==
  IF rs = << >>
  THEN [dominant_row_pattern |-> << >>, dominant_pattern_count |-> 0,
        metadata_rows |-> << >>, header_rows |-> << >>, data_rows |-> << >>,
        confidence |-> 0]
  ELSE
    LET patterns == [r \in 1..Len(rs) |-> PatternOf(rs[r])]
        dominant_pattern == MostCommon(patterns)
        dominant_pattern_count == PatternCount(patterns, dominant_pattern)
        dominant_rows ==
          SelectSeq(RangeList(0, Len(rs)), LAMBDA idx : patterns[idx + 1] = dominant_pattern)
        dominant_group == longest_contiguous_group(dominant_rows)
        dense ==
          {idx \in 0..(Len(rs) - 1) :
             Len(rs[idx + 1].cells) >= dense_threshold(dominant_pattern)}
        layout_start ==
          IF dense # {} THEN SetMin(dense)
          ELSE IF dominant_group # << >> THEN dominant_group[1] ELSE 0
        signalled == SelectSeq(dominant_group, LAMBDA idx : has_data_signal(rs[idx + 1]))
        data_start ==
          IF signalled # << >> THEN signalled[1]
          ELSE IF dominant_group # << >> THEN dominant_group[1] ELSE layout_start
    IN [dominant_row_pattern |-> dominant_pattern,
        dominant_pattern_count |-> dominant_pattern_count,
        dominant_pattern_rows |-> dominant_rows,
        dominant_contiguous_group |-> dominant_group,
        layout_start_row |-> layout_start,
        metadata_rows |-> RangeList(0, Min2(layout_start, Len(rs))),
        header_rows |->
          IF data_start > layout_start THEN RangeList(layout_start, data_start) ELSE << >>,
        data_rows |-> SelectSeq(dominant_group, LAMBDA idx : idx >= data_start),
        confidence |-> Confidence(dominant_pattern_count, Len(rs))]

(***************************************************************************)
(* infer_column_schema.  A Counter is the sequence of its [key, count]     *)
(* entries in insertion order, the order dict() and most_common keep.      *)
(***************************************************************************)
max_sample_values == 8

\* the mutant: only a cell of the very same slot overlaps
slot_overlap_same_slot(cell_a, cell_b) == cell_a = cell_b

slot_overlap(cell_a, cell_b) ==
  LET a_end == cell_a[1] + cell_a[2] - 1
      b_end == cell_b[1] + cell_b[2] - 1
  IN Max2(cell_a[1], cell_b[1]) <= Min2(a_end, b_end)

RECURSIVE FragmentsOfCells(_, _, _, _)
\* the loop over the cells of one header row, from cell i on
FragmentsOfCells(cells, i, slot, fragments) ==
  IF i > Len(cells) THEN fragments
  ELSE LET text == normalize_space(cells[i].text)
           added ==
             /\ slot_overlap(slot, Slot(cells[i]))
             /\ text # << >>
             /\ \A k \in 1..Len(fragments) : fragments[k] # text
       IN FragmentsOfCells(cells, i + 1, slot,
                           IF added THEN Append(fragments, text) ELSE fragments)

RECURSIVE FragmentsOfRows(_, _, _, _, _)
\* the loop over header_rows, from its k-th entry on
FragmentsOfRows(rs, header_rows, k, slot, fragments) ==
  IF k > Len(header_rows) THEN fragments
  ELSE FragmentsOfRows(rs, header_rows, k + 1, slot,
                       FragmentsOfCells(rs[header_rows[k] + 1].cells, 1, slot, fragments))

collect_header_fragments(rs, header_rows, slot) ==
  FragmentsOfRows(rs, header_rows, 1, slot, << >>)

\* the 1-based position of the first cell of the slot; 0 where the code returns None
find_cell_by_slot(cells, slot) ==
  IF \E i \in 1..Len(cells) : Slot(cells[i]) = slot
  THEN CHOOSE i \in 1..Len(cells) :
         Slot(cells[i]) = slot /\ \A j \in 1..(i - 1) : Slot(cells[j]) # slot
  ELSE 0

\* counter[key] += 1
CounterAdd(counter, key) ==
  IF \E i \in 1..Len(counter) : counter[i].key = key
  THEN [i \in 1..Len(counter) |->
         IF counter[i].key = key
         THEN [key |-> key, count |-> counter[i].count + 1]
         ELSE counter[i]]
  ELSE Append(counter, [key |-> key, count |-> 1])

\* counter.most_common(1)[0][0]: the first inserted of the keys of highest count
MostCommonKey(counter) ==
  counter[CHOOSE i \in 1..Len(counter) :
            /\ \A j \in 1..Len(counter) : counter[j].count <= counter[i].count
            /\ \A j \in 1..(i - 1) : counter[j].count < counter[i].count].key

RECURSIVE CountCheckboxStates(_, _, _)
\* the loop over the symbols of a cell, from symbol i on
CountCheckboxStates(symbols, i, distribution) ==
  IF i > Len(symbols) THEN distribution
  ELSE CountCheckboxStates(symbols, i + 1,
         IF symbols[i].checkbox_state = "True" THEN CounterAdd(distribution, "checked")
         ELSE IF symbols[i].checkbox_state = "False"
              THEN CounterAdd(distribution, "unchecked")
              ELSE distribution)

\* the accumulators of one column before the loop over data_rows
EmptyProfile ==
  [value_type_distribution |-> << >>, sample_values |-> << >>,
   empty_cell_count |-> 0, placeholder_count |-> 0, checkbox_distribution |-> << >>]

\* the mutant: a value is sampled again when it was sampled before
ProfileStepSamplesRepeats(profile, row_cell) ==
  LET value == normalize_space(row_cell.text)
      value_type == infer_text_type(value)
      counted ==
        IF value # << >>
        THEN [profile EXCEPT
               !.sample_values =
                 IF Len(@) < max_sample_values THEN Append(@, value) ELSE @,
               !.value_type_distribution = CounterAdd(@, value_type),
               !.placeholder_count = IF value_type = "placeholder" THEN @ + 1 ELSE @]
        ELSE [profile EXCEPT !.empty_cell_count = @ + 1]
  IN [counted EXCEPT
       !.checkbox_distribution = CountCheckboxStates(row_cell.symbols, 1, @)]

\* the mutant: a placeholder is counted among the empty cells as well
ProfileStepPlaceholderIsEmpty(profile, row_cell) ==
  LET value == normalize_space(row_cell.text)
      value_type == infer_text_type(value)
      counted ==
        IF value # << >>
        THEN [profile EXCEPT
               !.sample_values =
                 IF (\A k \in 1..Len(@) : @[k] # value) /\ Len(@) < max_sample_values
                 THEN Append(@, value) ELSE @,
               !.value_type_distribution = CounterAdd(@, value_type),
               !.placeholder_count = IF value_type = "placeholder" THEN @ + 1 ELSE @,
               !.empty_cell_count = IF value_type = "placeholder" THEN @ + 1 ELSE @]
        ELSE [profile EXCEPT !.empty_cell_count = @ + 1]
  IN [counted EXCEPT
       !.checkbox_distribution = CountCheckboxStates(row_cell.symbols, 1, @)]

\* one turn of the loop over data_rows, for a row that holds row_cell in the slot
ProfileStep(profile, row_cell) ==
  LET value == normalize_space(row_cell.text)
      value_type == infer_text_type(value)
      counted ==
        IF value # << >>
        THEN [profile EXCEPT
               !.sample_values =
                 IF (\A k \in 1..Len(@) : @[k] # value) /\ Len(@) < max_sample_values
                 THEN Append(@, value) ELSE @,
               !.value_type_distribution = CounterAdd(@, value_type),
               !.placeholder_count = IF value_type = "placeholder" THEN @ + 1 ELSE @]
        ELSE [profile EXCEPT !.empty_cell_count = @ + 1]
  IN [counted EXCEPT
       !.checkbox_distribution = CountCheckboxStates(row_cell.symbols, 1, @)]

RECURSIVE ProfileScan(_, _, _, _, _)
\* the loop over data_rows, from its k-th entry on
ProfileScan(rs, data_rows, k, slot, profile) ==
  IF k > Len(data_rows) THEN profile
  ELSE LET cells == rs[data_rows[k] + 1].cells
           found == find_cell_by_slot(cells, slot)
       IN ProfileScan(rs, data_rows, k + 1, slot,
                      IF found = 0 THEN profile ELSE ProfileStep(profile, cells[found]))

RECURSIVE JoinWith(_, _)
\* sep.join(parts)
JoinWith(sep, parts) ==
  IF parts = << >> THEN << >>
  ELSE IF Len(parts) = 1 THEN parts[1]
  ELSE parts[1] \o sep \o JoinWith(sep, Tail(parts))

\* the dict appended to schema for the template cell of the given index
ColumnOf(rs, sects, index, template_cell) ==
  LET slot == Slot(template_cell)
      profile == ProfileScan(rs, sects.data_rows, 1, slot, EmptyProfile)
      header_fragments == collect_header_fragments(rs, sects.header_rows, slot)
  IN [column_index |-> index,
      col_start |-> slot[1],
      col_end |-> slot[1] + slot[2] - 1,
      col_span |-> slot[2],
      header_fragments |-> header_fragments,
      header_label |-> JoinWith(<<" ", "|", " ">>, header_fragments),
      dominant_value_type |->
        IF profile.value_type_distribution # << >>
        THEN MostCommonKey(profile.value_type_distribution) ELSE "empty",
      value_type_distribution |-> profile.value_type_distribution,
      sample_values |-> profile.sample_values,
      empty_cell_count |-> profile.empty_cell_count,
      placeholder_count |-> profile.placeholder_count,
      has_checkbox |-> profile.checkbox_distribution # << >>,
      checkbox_distribution |-> profile.checkbox_distribution]

infer_column_schema(rs, sects) ==
  IF sects.data_rows = << >> THEN << >>
  ELSE LET template_row == rs[sects.data_rows[1] + 1]
       IN [i \in 1..Len(template_row.cells) |->
            ColumnOf(rs, sects, i - 1, template_row.cells[i])]

(***************************************************************************)
(* The key/value field list of parse_table.                                *)
(***************************************************************************)
\* the mutant: value_type is the type of the whole cell, not of the pair's value
KeyValueFieldsOfCellTypedByCell(index, row, cell) ==
  [k \in 1..Len(cell.key_values) |->
    [table_index |-> index,
     row_index |-> row.row_index,
     col_start |-> cell.col_start,
     col_span |-> cell.col_span,
     key |-> cell.key_values[k].key,
     value |-> cell.key_values[k].value,
     value_type |-> cell.inferred_type]]

KeyValueFieldsOfCell(index, row, cell) ==
  [k \in 1..Len(cell.key_values) |->
    [table_index |-> index,
     row_index |-> row.row_index,
     col_start |-> cell.col_start,
     col_span |-> cell.col_span,
     key |-> cell.key_values[k].key,
     value |-> cell.key_values[k].value,
     value_type |-> infer_text_type(cell.key_values[k].value)]]

KeyValueFieldsOfRow(index, row) ==
  Flatten([c \in 1..Len(row.cells) |-> KeyValueFieldsOfCell(index, row, row.cells[c])])

KeyValueFields(index, rs) ==
  Flatten([r \in 1..Len(rs) |-> KeyValueFieldsOfRow(index, rs[r])])

(***************************************************************************)
(* The checkbox field list and the type histogram of parse_table.          *)
(***************************************************************************)
RECURSIVE SplitWideSpace(_)
\* re.split(r"\s{2,}", s)
SplitWideSpace(s) ==
  IF \E i \in 1..(Len(s) - 1) : IsSpace(s[i]) /\ IsSpace(s[i + 1])
  THEN LET first == CHOOSE i \in 1..(Len(s) - 1) :
                      /\ IsSpace(s[i]) /\ IsSpace(s[i + 1])
                      /\ \A j \in 1..(i - 1) : ~(IsSpace(s[j]) /\ IsSpace(s[j + 1]))
           last == CHOOSE j \in first..Len(s) :
                     /\ \A k \in first..j : IsSpace(s[k])
                     /\ (j = Len(s) \/ ~IsSpace(s[j + 1]))
       IN <<SubSeq(s, 1, first - 1)>> \o SplitWideSpace(SubSeq(s, last + 1, Len(s)))
  ELSE <<s>>

RECURSIVE SplitBarSlash(_)
\* re.split(r"[|/]+", s)
SplitBarSlash(s) ==
  IF \E i \in 1..Len(s) : s[i] \in {"|", "/"}
  THEN LET first == CHOOSE i \in 1..Len(s) :
                      s[i] \in {"|", "/"} /\ \A j \in 1..(i - 1) : s[j] \notin {"|", "/"}
           last == CHOOSE j \in first..Len(s) :
                     /\ \A k \in first..j : s[k] \in {"|", "/"}
                     /\ (j = Len(s) \/ s[j + 1] \notin {"|", "/"})
       IN <<SubSeq(s, 1, first - 1)>> \o SplitBarSlash(SubSeq(s, last + 1, Len(s)))
  ELSE <<s>>

\* [normalize_space(piece) for piece in pieces if normalize_space(piece)]
NormalizedPieces(pieces) ==
  SelectSeq([i \in 1..Len(pieces) |-> normalize_space(pieces[i])],
            LAMBDA piece : piece # << >>)

\* the parts one stripped, non-blank line adds to candidates
LabelParts(line) ==
  LET parts == NormalizedPieces(SplitWideSpace(line))
      slash_parts == NormalizedPieces(SplitBarSlash(line))
  IN IF Len(parts) = 1 /\ Len(slash_parts) > 1 THEN slash_parts ELSE parts

extract_label_candidates(text, expected_count) ==
  IF expected_count <= 0 THEN << >>
  ELSE LET raw_lines == SplitLines(text)
           lines == SelectSeq([i \in 1..Len(raw_lines) |-> Strip(raw_lines[i])],
                              LAMBDA line : line # << >>)
           candidates == Flatten([i \in 1..Len(lines) |-> LabelParts(lines[i])])
       IN IF Len(candidates) >= expected_count
          THEN SubSeq(candidates, 1, expected_count)
          ELSE candidates

\* label_candidate None
NoLabel == <<"<None>">>

CheckboxFieldsOfCell(index, row, cell) ==
  LET checkbox_symbols == SelectSeq(cell.symbols, LAMBDA symbol : symbol.is_checkbox_symbol)
      label_candidates == extract_label_candidates(cell.text, Len(checkbox_symbols))
  IN [k \in 1..Len(checkbox_symbols) |->
       [table_index |-> index,
        row_index |-> row.row_index,
        col_start |-> cell.col_start,
        col_span |-> cell.col_span,
        symbol_index_in_cell |-> k - 1,
        font |-> checkbox_symbols[k].font,
        char |-> checkbox_symbols[k].char,
        checked |-> checkbox_symbols[k].checkbox_state,
        label_candidate |-> IF k - 1 < Len(label_candidates) THEN label_candidates[k]
                            ELSE NoLabel,
        cell_text |-> normalize_space(cell.text)]]

CheckboxFields(index, rs) ==
  Flatten([r \in 1..Len(rs) |->
    Flatten([c \in 1..Len(rs[r].cells) |-> CheckboxFieldsOfCell(index, rs[r], rs[r].cells[c])])])

RECURSIVE CountAll(_, _)
\* a Counter fed the keys in order
CountAll(keys, counter) ==
  IF keys = << >> THEN counter ELSE CountAll(Tail(keys), CounterAdd(counter, Head(keys)))

\* inferred_type_histogram: the inferred types of all cells, in row and cell order
TypeHistogram(rs) ==
  CountAll(Flatten([r \in 1..Len(rs) |->
                     [c \in 1..Len(rs[r].cells) |-> rs[r].cells[c].inferred_type]]),
           << >>)

(***************************************************************************)
(* The steps of parse_table.                                               *)
(***************************************************************************)
StartTable(tables, indices) ==
  /\ frame = NoFrame
  /\ DocumentIdle
  /\ table_element \in tables
  /\ table_index \in indices
  /\ pc = "grid"
  /\ grid_columns = << >>
  /\ rows = << >>
  /\ sections = << >>
  /\ column_schema = << >>
  /\ checkbox_fields = << >>
  /\ key_value_fields = << >>
  /\ inferred_type_histogram = << >>

\* the results of the steps after the rows are parsed
resultVars == <<column_schema, checkbox_fields, key_value_fields, inferred_type_histogram>>

\* grid_columns: the width of every w:gridCol
ParseGrid ==
  /\ pc = "grid"
  /\ IF \E i \in 1..Len(table_element.tblGrid) : AttrRaises(table_element.tblGrid[i])
     THEN pc' = "raised" /\ UNCHANGED grid_columns
     ELSE /\ grid_columns' =
               [i \in 1..Len(table_element.tblGrid) |-> AttrInt(table_element.tblGrid[i], 0)]
          /\ pc' = "rows"
  /\ UNCHANGED <<frame, table_element, table_index, rows, sections, resultVars,
                 documentVars>>

\* one turn of the loop over the w:tr elements
ParseRow ==
  /\ pc = "rows"
  /\ Len(rows) < Len(table_element.trs)
  /\ LET row_index == Len(rows)
         tr == table_element.trs[row_index + 1]
     IN IF RowRaises(tr)
        THEN pc' = "raised" /\ UNCHANGED rows
        ELSE rows' = Append(rows, RowOf(tr, row_index)) /\ UNCHANGED pc
  /\ UNCHANGED <<frame, table_element, table_index, grid_columns, sections, resultVars,
                 documentVars>>

AnnotateVerticalMerges ==
  /\ pc = "rows"
  /\ Len(rows) = Len(table_element.trs)
  /\ rows' = annotate_vertical_merges(rows)
  /\ pc' = "sections"
  /\ UNCHANGED <<frame, table_element, table_index, grid_columns, sections, resultVars,
                 documentVars>>

InferTableSections ==
  /\ pc = "sections"
  /\ sections' = infer_table_sections(rows)
  /\ pc' = "schema"
  /\ UNCHANGED <<frame, table_element, table_index, grid_columns, rows, resultVars,
                 documentVars>>

InferColumnSchema ==
  /\ pc = "schema"
  /\ column_schema' = infer_column_schema(rows, sections)
  /\ pc' = "fields"
  /\ UNCHANGED <<frame, table_element, table_index, grid_columns, rows, sections,
                 checkbox_fields, key_value_fields, inferred_type_histogram, documentVars>>

\* the loop over rows and cells that builds the field lists and the histogram;
\* parse_table returns
CollectFields ==
  /\ pc = "fields"
  /\ inferred_type_histogram' = TypeHistogram(rows)
  /\ key_value_fields' = KeyValueFields(table_index, rows)
  /\ checkbox_fields' = CheckboxFields(table_index, rows)
  /\ pc' = "done"
  /\ UNCHANGED <<frame, table_element, table_index, grid_columns, rows, sections,
                 column_schema, documentVars>>

NextTable ==
  \/ ParseGrid
  \/ ParseRow
  \/ AnnotateVerticalMerges
  \/ InferTableSections
  \/ InferColumnSchema
  \/ CollectFields

(***************************************************************************)
(* parse_table as one call: what the steps above leave when they reach     *)
(* "done", and whether they end in an exception instead.                   *)
(***************************************************************************)
\* int() raises on a w:gridCol width or on a span or skip value of a row
TableRaises(element) ==
  \/ \E i \in 1..Len(element.tblGrid) : AttrRaises(element.tblGrid[i])
  \/ \E r \in 1..Len(element.trs) : RowRaises(element.trs[r])

SeqMax(ns) == IF ns = << >> THEN 0 ELSE CHOOSE n \in Range(ns) : \A k \in Range(ns) : k <= n

\* the dict parse_table returns
parse_table(element, index, body_block_index) ==
  LET columns == [i \in 1..Len(element.tblGrid) |-> AttrInt(element.tblGrid[i], 0)]
      parsed == [r \in 1..Len(element.trs) |-> RowOf(element.trs[r], r - 1)]
      resolved == annotate_vertical_merges(parsed)
      sects == infer_table_sections(resolved)
  IN [table_index |-> index,
      body_block_index |-> body_block_index,
      row_count |-> Len(resolved),
      grid_column_count |-> Len(columns),
      grid_column_widths_twips |-> columns,
      max_total_col_span |->
        SeqMax([r \in 1..Len(resolved) |-> resolved[r].total_col_span]),
      max_cell_count |-> SeqMax([r \in 1..Len(resolved) |-> resolved[r].cell_count]),
      rows |-> resolved,
      sections |-> sects,
      column_schema |-> infer_column_schema(resolved, sects),
      checkbox_fields |-> CheckboxFields(index, resolved),
      key_value_fields |-> KeyValueFields(index, resolved),
      inferred_type_histogram |-> TypeHistogram(resolved)]

\* the result of parse_table: its grid_column_count entry
grid_column_count == Len(grid_columns)

(***************************************************************************)
(* Input tables.                                                           *)
(***************************************************************************)
TC(gridSpan, vMerge, paras) ==
  [gridSpan |-> gridSpan, vMerge |-> vMerge, paras |-> paras, syms |-> << >>]

TR(gridBefore, tcs) == [gridBefore |-> gridBefore, tcs |-> tcs]

TBL(tblGrid, trs) == [tblGrid |-> tblGrid, trs |-> trs]

\* a grid of n columns
GridOf(n) == [i \in 1..n |-> <<"9", "0", "0">>]

\* the tables of at most n rows drawn from a set of rows, on a grid
TablesOf(tblGrid, rowSet, n) == {TBL(tblGrid, trs) : trs \in SeqsUpTo(rowSet, n)}

Absent == << >>

Blank == << >>

(***************************************************************************)
(* Vertical merges: rows of one or two cells, empty of text, with every    *)
(* merge marker, leading skips, wide cells and two cells of span 0 that    *)
(* share a slot.                                                           *)
(***************************************************************************)
MaxMergeRows == 3

MC(gridSpan, vMerge) == TC(gridSpan, vMerge, << >>)

MergeRowElements ==
  { TR(Absent, <<MC(Absent, NoVMergeElement)>>),
    TR(Absent, <<MC(Absent, NoValAttribute)>>),
    TR(Absent, <<MC(Absent, "restart")>>),
    TR(<<"1">>, <<MC(Absent, NoVMergeElement)>>),
    TR(<<"1">>, <<MC(Absent, "continue")>>),
    TR(Absent, <<MC(Absent, NoVMergeElement), MC(Absent, NoValAttribute)>>),
    TR(Absent, <<MC(Absent, NoValAttribute), MC(Absent, "continue")>>),
    TR(Absent, <<MC(Absent, "restart"), MC(Absent, NoVMergeElement)>>),
    TR(Absent, <<MC(<<"2">>, NoValAttribute)>>),
    TR(Absent, <<MC(<<"2">>, NoVMergeElement)>>),
    TR(Absent, <<MC(<<"0">>, NoVMergeElement), MC(<<"0">>, NoValAttribute)>>),
    TR(Absent, <<MC(<<"0">>, NoValAttribute), MC(<<"0">>, "restart")>>) }

MergeTables == TablesOf(GridOf(2), MergeRowElements, MaxMergeRows)

InitMerge == StartTable(MergeTables, {0})

SpecMerge == InitMerge /\ [][NextTable]_vars

\* annotate_vertical_merges has run
MergesResolved == pc \in {"sections", "schema", "fields", "done"}

\* the rows directly below row a (0-based) that hold a "continue" cell in the slot
ContinueRunBelow(rs, a, slot) ==
  LET continues(j) ==
        /\ a + j < Len(rs)
        /\ HasSlot(rs[a + j + 1], slot)
        /\ SlotCell(rs[a + j + 1], slot).v_merge = "continue"
  IN CHOOSE k \in 0..Len(rs) : (\A j \in 1..k : continues(j)) /\ ~continues(k + 1)

\* C1: after annotate_vertical_merges every "continue" cell with a non-null
\* merge_anchor_row has its anchor strictly above its own row, and the anchor cell of
\* that row and slot has row_span = 1 + the number of contiguous "continue" cells
\* directly below it in the slot.
C1_AnchorAboveWithSpan ==
  MergesResolved =>
    \A r \in 1..Len(rows) : \A c \in 1..Len(rows[r].cells) :
      LET cell == rows[r].cells[c]
          anchor == cell.merge_anchor_row
      IN (cell.v_merge = "continue" /\ anchor # NoRow) =>
           /\ anchor >= 0
           /\ anchor < r - 1
           /\ HasSlot(rows[anchor + 1], Slot(cell))
           /\ SlotCell(rows[anchor + 1], Slot(cell)).v_merge # "continue"
           /\ SlotCell(rows[anchor + 1], Slot(cell)).row_span
                = 1 + ContinueRunBelow(rows, anchor, Slot(cell))

\* a "continue" cell in the third row whose anchor, two rows up, spans three rows
C1_Witness ==
  /\ MergesResolved
  /\ Len(rows) = 3
  /\ \E c \in 1..Len(rows[3].cells) :
       /\ rows[3].cells[c].v_merge = "continue"
       /\ rows[3].cells[c].merge_anchor_row = 0
       /\ SlotCell(rows[1], Slot(rows[3].cells[c])).row_span = 3

(***************************************************************************)
(* Sections: rows of a few span patterns, with and without a data signal,  *)
(* and a dense row of eight cells.                                         *)
(***************************************************************************)
MaxSectionRows == 4

Word == <<"a", "b">>

Number == <<"7">>

Dash == <<"-">>

\* a cell of one paragraph
PC(gridSpan, text) == TC(gridSpan, NoVMergeElement, <<text>>)

SectionRowElements ==
  { TR(Absent, <<PC(Absent, Word), PC(Absent, Word)>>),
    TR(Absent, <<PC(Absent, Number), PC(Absent, Word)>>),
    TR(Absent, <<PC(Absent, Number), PC(Absent, Dash)>>),
    TR(Absent, <<PC(<<"2">>, Word)>>),
    TR(Absent, <<PC(Absent, Number), PC(<<"2">>, Number)>>),
    TR(Absent, [i \in 1..8 |-> PC(Absent, Word)]) }

SectionTables == TablesOf(GridOf(8), SectionRowElements, MaxSectionRows)

InitSections == StartTable(SectionTables, {0})

SpecSections == InitSections /\ [][NextTable]_vars

\* infer_table_sections has run
SectionsInferred == pc \in {"schema", "fields", "done"}

SeqSet(q) == {q[i] : i \in 1..Len(q)}

\* empty, or consecutive row indices within [0, n)
ContiguousWithin(q, n) ==
  \A i \in 1..Len(q) : q[i] \in 0..(n - 1) /\ (i > 1 => q[i] = q[i - 1] + 1)

\* C2: metadata_rows, header_rows and data_rows are pairwise disjoint, and each is
\* empty or a contiguous range of row indices within [0, row count).
C2_SectionsDisjointContiguous ==
  SectionsInferred =>
    /\ SeqSet(sections.metadata_rows) \cap SeqSet(sections.header_rows) = {}
    /\ SeqSet(sections.metadata_rows) \cap SeqSet(sections.data_rows) = {}
    /\ SeqSet(sections.header_rows) \cap SeqSet(sections.data_rows) = {}
    /\ ContiguousWithin(sections.metadata_rows, Len(rows))
    /\ ContiguousWithin(sections.header_rows, Len(rows))
    /\ ContiguousWithin(sections.data_rows, Len(rows))

\* the number of rows that have the column-span pattern of row r
SamePatternCount(rs, r) ==
  Cardinality({q \in 1..Len(rs) : PatternOf(rs[q]) = PatternOf(rs[r])})

\* the number of rows that have the most frequent pattern
DominantCount(rs) ==
  CHOOSE n \in 0..Len(rs) :
    /\ \A r \in 1..Len(rs) : SamePatternCount(rs, r) <= n
    /\ rs # << >> => \E r \in 1..Len(rs) : SamePatternCount(rs, r) = n

OnePattern(rs) == rs # << >> /\ \A r \in 1..Len(rs) : PatternOf(rs[r]) = PatternOf(rs[1])

\* C3 as stated: confidence lies in [0,1] and equals dominant_pattern_count /
\* total_row_count, and is exactly 1.0 whenever every row has the same pattern.
C3_ConfidenceIsQuotient ==
  SectionsInferred =>
    /\ sections.confidence \in 0..1000
    /\ rows # << >> => sections.confidence * Len(rows) = 1000 * DominantCount(rows)
    /\ OnePattern(rows) => sections.confidence = 1000

Abs(x) == IF x < 0 THEN 0 - x ELSE x

\* C3 amended: confidence lies in [0,1] and is dominant_pattern_count /
\* total_row_count rounded to three decimals (0.0 for a table without rows); it is
\* exactly 1.0 whenever the table has rows and they all have the same pattern.
C3_ConfidenceIsRoundedQuotient ==
  SectionsInferred =>
    /\ sections.confidence \in 0..1000
    /\ sections.dominant_pattern_count = DominantCount(rows)
    /\ rows = << >> => sections.confidence = 0
    /\ rows # << >> =>
         2 * Abs(sections.confidence * Len(rows) - 1000 * DominantCount(rows)) <= Len(rows)
    /\ OnePattern(rows) => sections.confidence = 1000

\* two of three rows have the dominant pattern: confidence 0.667
C3_Witness ==
  /\ SectionsInferred
  /\ Len(rows) = 3
  /\ DominantCount(rows) = 2
  /\ sections.confidence = 667

(***************************************************************************)
(* The end-to-end scenario: a title row of one cell spanning all n         *)
(* columns, a header row of n cells, and four data rows of n cells with    *)
(* numeric-looking values in at least two of them.                         *)
(***************************************************************************)
MaxScenarioCols == 3

\* widths below the density threshold of 8 cells, at it, and above it
ScenarioWidths == (2..MaxScenarioCols) \cup {8, 15}

\* str(n) for 0 <= n < 100
DigitsText(n) ==
  IF n < 10 THEN <<AsciiDigits[n + 1]>>
  ELSE <<AsciiDigits[(n \div 10) + 1], AsciiDigits[(n % 10) + 1]>>

TitleText == <<"T", "i", "t", "l", "e">>

HeaderTexts == { <<"N", "a", "m", "e">>, <<"A">> }

NumericTexts == { <<"3", ".", "5">>, <<"5", " ", "k", "g">> }

FillerTexts == { <<"a", "b">>, << >>, <<"-">> }

\* the columns of a data row of n cells that hold the numeric-looking value
NumericColumns(n) == { {1, 2}, {n - 1, n}, 1..n }

TitleRow(n) == TR(Absent, <<PC(DigitsText(n), TitleText)>>)

HeaderRow(n, odd, even) ==
  TR(Absent, [i \in 1..n |-> PC(Absent, IF i % 2 = 1 THEN odd ELSE even)])

DataRow(n, columns, value, filler) ==
  TR(Absent, [i \in 1..n |-> PC(Absent, IF i \in columns THEN value ELSE filler)])

ScenarioTablesOfWidth(n) ==
  { TBL(GridOf(n),
        <<TitleRow(n), HeaderRow(n, odd, even),
          DataRow(n, first, value, filler), DataRow(n, others, value, filler),
          DataRow(n, others, value, filler), DataRow(n, others, value, filler)>>) :
      odd \in HeaderTexts, even \in HeaderTexts,
      first \in NumericColumns(n), others \in NumericColumns(n),
      value \in NumericTexts, filler \in FillerTexts }

ScenarioTables == UNION {ScenarioTablesOfWidth(n) : n \in ScenarioWidths}

InitScenario == StartTable(ScenarioTables, {0})

SpecScenario == InitScenario /\ [][NextTable]_vars

NumericLooking(text) == infer_text_type(text) \in NumericLikeTypes

\* rs is the scenario table: row 0 one cell spanning all n >= 2 columns, row 1 n
\* single-span cells of header text, rows 2..5 of row 1's pattern with
\* numeric-looking values in at least two cells
ScenarioShape(rs) ==
  /\ Len(rs) = 6
  /\ Len(rs[1].cells) = 1
  /\ LET n == rs[1].cells[1].col_span
     IN /\ n >= 2
        /\ \A r \in 2..6 : PatternOf(rs[r]) = [i \in 1..n |-> 1]
        /\ \A i \in 1..n : ~NumericLooking(rs[2].cells[i].text)
        /\ \A r \in 3..6 :
             Cardinality({i \in 1..n : NumericLooking(rs[r].cells[i].text)}) >= 2

\* C4: for the scenario table infer_table_sections returns metadata_rows=[0],
\* header_rows=[1] and data_rows=[2,3,4,5].
C4_ScenarioSections ==
  (SectionsInferred /\ ScenarioShape(rows)) =>
    /\ sections.metadata_rows = <<0>>
    /\ sections.header_rows = <<1>>
    /\ sections.data_rows = <<2, 3, 4, 5>>

\* a scenario table of width 8, whose header row is itself a dense row, is sectioned
C4_Witness ==
  /\ SectionsInferred
  /\ ScenarioShape(rows)
  /\ Len(rows[2].cells) = 8
  /\ sections.layout_start_row = 1
  /\ sections.data_rows = <<2, 3, 4, 5>>

\* C5 as stated: for the scenario table confidence is 0.8, 4/5 of the rows matching
\* the dominant pattern.
C5_ConfidenceFourFifths ==
  (SectionsInferred /\ ScenarioShape(rows)) => sections.confidence = 800

\* C5 amended: for the scenario table confidence is 0.833: 5 of the 6 rows (the
\* header row and the four data rows) have the dominant pattern.
C5_ConfidenceFiveSixths ==
  (SectionsInferred /\ ScenarioShape(rows)) =>
    /\ Len(rows) = 6
    /\ sections.dominant_pattern_count = 5
    /\ DominantCount(rows) = 5
    /\ sections.confidence = 833

\* a scenario table of width 2 has been given its confidence
C5_Witness ==
  /\ SectionsInferred
  /\ ScenarioShape(rows)
  /\ Len(rows[2].cells) = 2
  /\ sections.confidence = 833

(***************************************************************************)
(* Grids: tables of 0 to MaxGridCols declared columns whose rows fit the   *)
(* grid or not, with leading skips, wide cells and spans of 0.             *)
(***************************************************************************)
MaxGridCols == 3

MaxGridRows == 2

\* a cell of the given w:gridSpan value
GC(gridSpan) == TC(gridSpan, NoVMergeElement, << >>)

GridRowElements ==
  { TR(Absent, <<GC(Absent)>>),
    TR(Absent, <<GC(<<"2">>)>>),
    TR(Absent, <<GC(Absent), GC(<<"1">>)>>),
    TR(Absent, <<GC(Absent), GC(<<"2">>)>>),
    TR(Absent, <<GC(<<"U+06F2">>), GC(Absent)>>),
    TR(<<"1">>, <<GC(Absent)>>),
    TR(<<"1">>, <<GC(<<"2">>)>>),
    TR(<<"1">>, <<GC(Absent), GC(Absent)>>),
    TR(Absent, <<GC(<<"0">>)>>),
    TR(Absent, <<GC(Absent), GC(<<"0">>)>>),
    TR(<<"-", "1">>, <<GC(Absent)>>),
    TR(Absent, <<GC(<<"3">>)>>) }

GridTables ==
  UNION {TablesOf(GridOf(n), GridRowElements, MaxGridRows) : n \in 0..MaxGridCols}

InitGrid == StartTable(GridTables, {0})

SpecGrid == InitGrid /\ [][NextTable]_vars

\* parse_table has returned its result
TableParsed == pc = "done"

CellsWithinGrid ==
  \A r \in 1..Len(rows) : \A c \in 1..Len(rows[r].cells) :
    LET cell == rows[r].cells[c]
    IN /\ 0 <= cell.col_start
       /\ cell.col_start + cell.col_span - 1 < grid_column_count
       /\ cell.col_span >= 1

\* C6 as stated: for every table parsed by parse_table every cell has
\* 0 <= col_start, col_start + col_span - 1 < grid_column_count and col_span >= 1.
C6_CellsWithinGrid == TableParsed => CellsWithinGrid

\* every row of the table element fits the declared grid: a leading skip >= 0 and
\* spans >= 1 that, with the skip, sum to at most the number of w:gridCol elements
RowsFitGrid(t) ==
  \A r \in 1..Len(t.trs) :
    LET tr == t.trs[r]
        spans == [i \in 1..Len(tr.tcs) |-> AttrInt(tr.tcs[i].gridSpan, 1)]
    IN /\ AttrInt(tr.gridBefore, 0) >= 0
       /\ \A i \in 1..Len(spans) : spans[i] >= 1
       /\ AttrInt(tr.gridBefore, 0) + SumSeq(spans) <= Len(t.tblGrid)

\* C6 amended: for every table whose rows fit its declared grid, every cell parsed by
\* parse_table has 0 <= col_start, col_start + col_span - 1 < grid_column_count and
\* col_span >= 1.
C6_CellsWithinGridWhenRowsFit ==
  (TableParsed /\ RowsFitGrid(table_element)) => CellsWithinGrid

\* a table that fits its grid, with a skipped column and a wide cell that ends in
\* the last declared column
C6_Witness ==
  /\ TableParsed
  /\ RowsFitGrid(table_element)
  /\ \E r \in 1..Len(rows) : \E c \in 1..Len(rows[r].cells) :
       /\ rows[r].grid_before = 1
       /\ rows[r].cells[c].col_span = 2
       /\ rows[r].cells[c].col_start + rows[r].cells[c].col_span = grid_column_count

(***************************************************************************)
(* Key/value fields: cells of one or two paragraphs with and without       *)
(* pairs, in tables of index 0 and 2.                                      *)
(***************************************************************************)
MaxFieldRows == 2

WeightCell == PC(Absent, WeightText)

\* two paragraphs, one pair each: (k, 7) and, at a full-width colon, (n, -)
TwoPairCell ==
  TC(<<"2">>, NoVMergeElement, << <<"k", ":", "7">>, <<"n", "U+FF1A", "-">> >>)

WordCell == PC(Absent, Word)

\* one paragraph with a line break: the line "t:" is a pair, the line ":u" is none
BreakCell == PC(Absent, <<"t", ":", "\n", ":", "u">>)

FieldRowElements ==
  { TR(Absent, <<WeightCell>>),
    TR(Absent, <<TwoPairCell>>),
    TR(Absent, <<WordCell>>),
    TR(Absent, <<BreakCell>>),
    TR(Absent, <<WeightCell, WeightCell>>),
    TR(Absent, <<WeightCell, TwoPairCell>>),
    TR(Absent, <<TwoPairCell, BreakCell>>),
    TR(Absent, <<WordCell, WeightCell>>),
    TR(Absent, <<BreakCell, WordCell>>),
    TR(<<"1">>, <<WeightCell>>) }

FieldTables == TablesOf(GridOf(3), FieldRowElements, MaxFieldRows)

InitFields == StartTable(FieldTables, {0, 2})

SpecFields == InitFields /\ [][NextTable]_vars

\* the number of pairs of the cells that come before cell c of row r (both 1-based)
PairsBefore(rs, r, c) ==
  SumSeq([q \in 1..(r - 1) |->
           SumSeq([i \in 1..Len(rs[q].cells) |-> Len(rs[q].cells[i].key_values)])])
    + SumSeq([i \in 1..(c - 1) |-> Len(rs[r].cells[i].key_values)])

\* the fields reported for the slot of a cell
FieldsAt(cell) ==
  {f \in 1..Len(key_value_fields) :
     /\ key_value_fields[f].row_index = cell.row_index
     /\ key_value_fields[f].col_start = cell.col_start
     /\ key_value_fields[f].col_span = cell.col_span}

\* C10: every key/value pair of a cell is reported exactly once in key_value_fields,
\* with its table index, row index and slot and with value_type the classifier's tag
\* of its value; the one-line cell text "Weight: 12.4 kg" yields exactly one field,
\* key "Weight", value "12.4 kg", value_type measurement.
C10_KeyValueFields ==
  TableParsed =>
    /\ Len(key_value_fields) = PairsBefore(rows, Len(rows) + 1, 1)
    /\ \A r \in 1..Len(rows) : \A c \in 1..Len(rows[r].cells) :
         LET cell == rows[r].cells[c]
         IN /\ cell.key_values = extract_key_values(cell.text)
            /\ Cardinality(FieldsAt(cell)) = Len(cell.key_values)
            /\ \A k \in 1..Len(cell.key_values) :
                 LET field == key_value_fields[PairsBefore(rows, r, c) + k]
                 IN /\ field.table_index = table_index
                    /\ field.row_index = r - 1
                    /\ field.col_start = cell.col_start
                    /\ field.col_span = cell.col_span
                    /\ field.key = cell.key_values[k].key
                    /\ field.value = cell.key_values[k].value
                    /\ field.value_type = FirstMatchingTag(field.value)
            /\ cell.text = WeightText =>
                 \A f \in FieldsAt(cell) :
                   /\ key_value_fields[f].key = <<"W", "e", "i", "g", "h", "t">>
                   /\ key_value_fields[f].value = <<"1", "2", ".", "4", " ", "k", "g">>
                   /\ key_value_fields[f].value_type = "measurement"

\* table 2, second row: a two-pair cell after a Weight cell, every pair reported
C10_Witness ==
  /\ TableParsed
  /\ table_index = 2
  /\ Len(rows) = 2
  /\ Len(rows[2].cells) = 2
  /\ rows[2].cells[1].text = WeightText
  /\ Len(rows[2].cells[2].key_values) = 2
  /\ Len(key_value_fields) >= 3
  /\ key_value_fields[Len(key_value_fields)].value_type = "placeholder"
  /\ key_value_fields[Len(key_value_fields)].row_index = 1
  /\ key_value_fields[Len(key_value_fields)].col_start = 1

(***************************************************************************)
(* Placeholder tokens and unit tokens of the classifier.                   *)
(***************************************************************************)
\* the placeholder tokens of the closed set, "n/a" in lower case
PlaceholderTokens ==
  { <<"-">>, <<"-", "-">>, <<"-", "-", "-">>, <<"_">>, <<"*">>, <<"n", "/", "a">> }

\* C19: infer_text_type classifies "n/a" in any letter casing as placeholder, as it
\* does the single, double and triple dash, the underscore and the asterisk.
C19_PlaceholderAnyCasing ==
  (/\ frame.fn = "infer_text_type"
   /\ frame.returned
   /\ Lower(normalize_space(frame.arg)) \in PlaceholderTokens)
    => frame.ret = "placeholder"

\* a number immediately followed by a unit token of the unit set, in any casing
NumberWithUnit(s) ==
  \E k \in 1..Len(s) :
    /\ AllDigits(to_ascii_digits(Slice(s, 0, k)))
    /\ k >= 1
    /\ Lower(Slice(s, k, Len(s))) \in MeasurementUnits

\* C20: infer_text_type classifies every text that is a number immediately followed
\* by a unit token of the unit set as measurement, for each unit including "%".
C20_NumberWithUnitIsMeasurement ==
  (/\ frame.fn = "infer_text_type"
   /\ frame.returned
   /\ NumberWithUnit(frame.arg))
    => frame.ret = "measurement"

(***************************************************************************)
(* The anchor of a "continue" cell.                                        *)
(***************************************************************************)
\* row p (0-based) holds a cell in the slot that is not "continue"
NonContinueAt(rs, p, slot) ==
  HasSlot(rs[p + 1], slot) /\ SlotCell(rs[p + 1], slot).v_merge # "continue"

\* the rows above row_index that hold a non-"continue" cell in the slot
NonContinueRowsAbove(rs, row_index, slot) ==
  {p \in 0..(row_index - 1) : NonContinueAt(rs, p, slot)}

SetMax(S) == CHOOSE x \in S : \A y \in S : y <= x

\* C16 as stated: every "continue" cell has row_span = 0 and its merge_anchor_row is
\* the row of the first non-"continue" cell of its slot met going upward; it is null
\* only when no row above holds a non-"continue" cell in the slot.
C16_AnchorIsNearestNonContinue ==
  MergesResolved =>
    \A r \in 1..Len(rows) : \A c \in 1..Len(rows[r].cells) :
      LET cell == rows[r].cells[c]
          above == NonContinueRowsAbove(rows, r - 1, Slot(cell))
      IN cell.v_merge = "continue" =>
           /\ cell.row_span = 0
           /\ cell.merge_anchor_row = (IF above = {} THEN NoRow ELSE SetMax(above))

\* the rows above row_index with a non-"continue" cell in the slot that are joined
\* to row_index by rows that all hold a "continue" cell in the slot
JoinedAnchors(rs, row_index, slot) ==
  {p \in NonContinueRowsAbove(rs, row_index, slot) :
     \A q \in (p + 1)..(row_index - 1) :
       HasSlot(rs[q + 1], slot) /\ SlotCell(rs[q + 1], slot).v_merge = "continue"}

\* C16 amended: every "continue" cell has row_span = 0; the upward search goes
\* through the rows directly above while they hold a cell in the slot, and
\* merge_anchor_row is the row of the first non-"continue" cell it meets, null when
\* it meets a row without a cell in the slot or runs out of rows first.
C16_AnchorThroughJoinedRows ==
  MergesResolved =>
    \A r \in 1..Len(rows) : \A c \in 1..Len(rows[r].cells) :
      LET cell == rows[r].cells[c]
          joined == JoinedAnchors(rows, r - 1, Slot(cell))
      IN cell.v_merge = "continue" =>
           /\ cell.row_span = 0
           /\ Cardinality(joined) <= 1
           /\ cell.merge_anchor_row = (IF joined = {} THEN NoRow ELSE SetMax(joined))

\* a "continue" cell in the third row, a non-"continue" cell of its slot in the first
\* row and no cell of the slot in the second: the cell is left without an anchor
C16_Witness ==
  /\ MergesResolved
  /\ Len(rows) = 3
  /\ \E c \in 1..Len(rows[3].cells) :
       LET cell == rows[3].cells[c]
       IN /\ cell.v_merge = "continue"
          /\ cell.row_span = 0
          /\ cell.merge_anchor_row = NoRow
          /\ ~HasSlot(rows[2], Slot(cell))
          /\ NonContinueAt(rows, 0, Slot(cell))

(***************************************************************************)
(* Forms: rows of labels, values, key/value pairs, merged cells and        *)
(* checkbox symbols, through every step of parse_table.                    *)
(***************************************************************************)
MaxFormRows == 3

\* a cell with w:sym elements
TCS(gridSpan, vMerge, paras, syms) ==
  [gridSpan |-> gridSpan, vMerge |-> vMerge, paras |-> paras, syms |-> syms]

CheckedSym == [font |-> <<"W", "i", "n", "g", "d", "i", "n", "g", "s", " ", "2">>,
               char |-> <<"F", "0", "A", "2">>]

UncheckedSym == [font |-> <<"W", "I", "N", "G", "D", "I", "N", "G", "S", " ", "2">>,
                 char |-> <<"0", "x", "F", "0", "A", "3">>]

BulletSym == [font |-> <<"S", "y", "m", "b", "o", "l">>, char |-> <<"F", "0", "A", "2">>]

\* "Yes", a wide gap, "No" and two checkboxes
YesNoCell ==
  TCS(Absent, NoVMergeElement, << <<"Y", "e", "s", " ", " ", "N", "o">> >>,
      <<CheckedSym, UncheckedSym>>)

\* "a/b" with a bullet and one checkbox
SlashCell ==
  TCS(Absent, NoVMergeElement, << <<"a", "/", "b">> >>, <<BulletSym, UncheckedSym>>)

\* a placeholder with three checkboxes, more than its text has labels
DashCell ==
  TCS(Absent, NoVMergeElement, << Dash >>, <<CheckedSym, CheckedSym, UncheckedSym>>)

RestartPairCell == TC(Absent, "restart", << <<"k", ":", "7">> >>)

ContinueCell == TC(Absent, NoValAttribute, << >>)

FormRowElements ==
  { TR(Absent, <<PC(Absent, <<"N", "a", "m", "e">>), PC(Absent, <<"A">>)>>),
    TR(Absent, <<PC(Absent, Number), YesNoCell>>),
    TR(Absent, <<RestartPairCell, SlashCell>>),
    TR(Absent, <<ContinueCell, PC(Absent, Number)>>),
    TR(Absent, <<DashCell, ContinueCell>>),
    TR(Absent, <<PC(<<"2">>, Word)>>),
    TR(<<"1">>, <<PC(Absent, <<"3", ".", "5">>)>>),
    TR(Absent, <<PC(Absent, Number), PC(Absent, Blank)>>) }

FormTables == TablesOf(GridOf(2), FormRowElements, MaxFormRows)

InitForm == StartTable(FormTables, {0})

SpecForm == InitForm /\ [][NextTable]_vars

\* the cell but for its two span fields
WithoutSpanFields(cell) == [cell EXCEPT !.row_span = 1, !.merge_anchor_row = NoRow]

\* the rows differ in the row_span and merge_anchor_row of their cells at most
SameButSpanFields(before, after) ==
  /\ Len(after) = Len(before)
  /\ \A r \in 1..Len(before) :
       /\ [after[r] EXCEPT !.cells = << >>] = [before[r] EXCEPT !.cells = << >>]
       /\ Len(after[r].cells) = Len(before[r].cells)
       /\ \A c \in 1..Len(before[r].cells) :
            WithoutSpanFields(after[r].cells[c]) = WithoutSpanFields(before[r].cells[c])

\* C17: merge resolution changes only the row_span and merge_anchor_row of cells and
\* leaves every other cell and row field unchanged; section inference, column-schema
\* building and field extraction change no cell or row field.
C17_OnlySpanFieldsChange ==
  [][/\ (pc = "rows" /\ pc' = "sections") => SameButSpanFields(rows, rows')
     /\ pc \in {"sections", "schema", "fields"} => rows' = rows]_vars

\* a table that went through every step: a merged run of two rows, a column schema
\* and checkbox fields
C17_Witness ==
  /\ pc = "done"
  /\ \E r \in 1..Len(rows) : \E c \in 1..Len(rows[r].cells) :
       rows[r].cells[c].row_span = 2 /\ rows[r].cells[c].merge_anchor_row = r - 1
  /\ \E r \in 1..Len(rows) : \E c \in 1..Len(rows[r].cells) :
       rows[r].cells[c].row_span = 0 /\ rows[r].cells[c].merge_anchor_row # NoRow
  /\ column_schema # << >>
  /\ checkbox_fields # << >>
  /\ key_value_fields # << >>

(***************************************************************************)
(* Malformed rows: a w:gridSpan or w:gridBefore value that is no integer,  *)
(* a row without cells, among well-formed rows.                            *)
(***************************************************************************)
MaxMalformedRows == 3

MalformedRowElements ==
  { TR(Absent, <<GC(Absent)>>),
    TR(Absent, <<GC(<<" ", "2", " ">>), GC(Absent)>>),
    TR(Absent, << >>),
    TR(Absent, <<GC(<<"x">>)>>),
    TR(<<"x">>, <<GC(Absent)>>),
    TR(Absent, <<GC(<<"2">>), GC(<<"1", ".", "5">>)>>) }

MalformedTables == TablesOf(GridOf(2), MalformedRowElements, MaxMalformedRows)

InitMalformed == StartTable(MalformedTables, {0})

SpecMalformed == InitMalformed /\ [][NextTable]_vars

\* the row element is malformed: a span or skip value that is not an integer
Malformed(tr) == RowRaises(tr)

\* C11: when a row element is malformed (a non-numeric span or skip, or no cells),
\* parse_table treats that row as an empty row and parses every other row; the
\* table result is produced rather than an error.
C11_MalformedRowIsEmptyRow ==
  /\ pc = "raised" =>
       \A r \in 1..Len(table_element.trs) : ~Malformed(table_element.trs[r])
  /\ pc = "done" =>
       /\ Len(rows) = Len(table_element.trs)
       /\ \A r \in 1..Len(rows) :
            rows[r].cell_count =
              IF Malformed(table_element.trs[r]) THEN 0 ELSE Len(table_element.trs[r].tcs)

(***************************************************************************)
(* analyze_docx.  An input file is [suffix, exists, is_package, conversion,*)
(* well_formed, has_body, body]: is_package says that the file is a zip    *)
(* archive holding word/document.xml, conversion what the converters make  *)
(* of a .doc file, and well_formed, has_body and body describe the         *)
(* document XML of the package (of the converted package for a .doc        *)
(* file).  A body block is [type, text] for a paragraph, [type, element]   *)
(* for a table, [type] otherwise.  Exceptions are named by their class.    *)
(***************************************************************************)
DocxSuffix == <<".", "d", "o", "c", "x">>

DocSuffix == <<".", "d", "o", "c">>

\* is_docx_package of the input path itself
is_docx_package(input) ==
  Lower(input.suffix) = DocxSuffix /\ input.exists /\ input.is_package

\* the exception prepare_input_docx raises on the input, "None" when it returns
PrepareError(input) ==
  IF ~input.exists THEN "FileNotFoundError"
  ELSE IF Lower(input.suffix) = DocxSuffix
       THEN IF ~is_docx_package(input) THEN "ValueError" ELSE "None"
  ELSE IF Lower(input.suffix) # DocSuffix THEN "ValueError"
  \* win32com and the PowerShell fallback both failed
  ELSE IF input.conversion = "fails" THEN "RuntimeError"
  \* the converted file is not a package
  ELSE IF input.conversion = "bad_output" THEN "RuntimeError"
  ELSE "None"

\* conversion_info, the second component of what prepare_input_docx returns
ConversionInfo(input) ==
  IF Lower(input.suffix) = DocxSuffix
  THEN [source_format |-> "docx", converted |-> FALSE]
  ELSE [source_format |-> "doc", converted |-> TRUE]

\* the call of analyze_docx on entry
CallAnalyze(input, use_docling) ==
  [pc |-> "prepare", input_path |-> input, use_docling |-> use_docling,
   xml_parsed |-> FALSE, parse_table_calls |-> 0, block_index |-> 0, table_index |-> 0,
   tables |-> << >>, block_sequence |-> << >>, block_type_counts |-> << >>,
   error |-> "None"]

\* analyze_docx is left by an exception
Raise(error) == analysis' = [analysis EXCEPT !.pc = "raised", !.error = error]

PrepareInputDocx ==
  /\ analysis.pc = "prepare"
  /\ IF PrepareError(analysis.input_path) # "None"
     THEN Raise(PrepareError(analysis.input_path))
     ELSE analysis' = [analysis EXCEPT !.pc = "document"]
  /\ UNCHANGED <<frame, tableVars, batch>>

\* the mutant: the body is not looked up, its absence goes unnoticed
ParseDocumentWithoutBodyCheck ==
  /\ analysis.pc = "document"
  /\ IF ~analysis.input_path.well_formed
     THEN analysis' = [analysis EXCEPT !.pc = "raised", !.error = "ParseError",
                                       !.xml_parsed = TRUE]
     ELSE analysis' = [analysis EXCEPT !.pc = "blocks", !.xml_parsed = TRUE]
  /\ UNCHANGED <<frame, tableVars, batch>>

\* ET.fromstring(document_xml) and the lookup of the body
ParseDocument ==
  /\ analysis.pc = "document"
  /\ IF ~analysis.input_path.well_formed
     THEN analysis' = [analysis EXCEPT !.pc = "raised", !.error = "ParseError",
                                       !.xml_parsed = TRUE]
     ELSE IF ~analysis.input_path.has_body
     THEN analysis' = [analysis EXCEPT !.pc = "raised", !.error = "ValueError",
                                       !.xml_parsed = TRUE]
     ELSE analysis' = [analysis EXCEPT !.pc = "blocks", !.xml_parsed = TRUE]
  /\ UNCHANGED <<frame, tableVars, batch>>

preview_length == 140

\* block_entry of one body child that is not a table
BlockEntry(block_index, child) ==
  LET paragraph_text == normalize_space(Strip(child.text))
  IN IF child.type = "p" /\ paragraph_text # << >>
     THEN [index |-> block_index, type |-> child.type,
           text_preview |->
             Slice(paragraph_text, 0, Min2(preview_length, Len(paragraph_text)))]
     ELSE [index |-> block_index, type |-> child.type]

\* one turn of the loop over the children of the body; for a table it calls
\* parse_table and waits for it
AnalyzeBlock ==
  /\ analysis.pc = "blocks"
  /\ analysis.block_index < Len(analysis.input_path.body)
  /\ LET child == analysis.input_path.body[analysis.block_index + 1]
     IN IF child.type = "tbl"
        THEN /\ analysis' = [analysis EXCEPT !.pc = "parse_table",
                                             !.block_type_counts = CounterAdd(@, "tbl"),
                                             !.parse_table_calls = @ + 1]
             /\ table_element' = child.element
             /\ table_index' = analysis.table_index
             /\ pc' = "grid"
             /\ UNCHANGED <<grid_columns, rows, sections, resultVars>>
        ELSE /\ analysis' =
                  [analysis EXCEPT
                    !.block_type_counts = CounterAdd(@, child.type),
                    !.block_sequence = Append(@, BlockEntry(analysis.block_index, child)),
                    !.block_index = @ + 1]
             /\ UNCHANGED tableVars
  /\ UNCHANGED <<frame, batch>>

\* the frame of parse_table is gone
LeaveTable ==
  /\ table_element' = NoTable
  /\ table_index' = 0
  /\ pc' = "idle"
  /\ grid_columns' = << >>
  /\ rows' = << >>
  /\ sections' = << >>
  /\ column_schema' = << >>
  /\ checkbox_fields' = << >>
  /\ key_value_fields' = << >>
  /\ inferred_type_histogram' = << >>

\* the dict parse_table returns, from its locals
TableData(body_block_index) ==
  [table_index |-> table_index,
   body_block_index |-> body_block_index,
   row_count |-> Len(rows),
   grid_column_count |-> Len(grid_columns),
   grid_column_widths_twips |-> grid_columns,
   max_total_col_span |-> SeqMax([r \in 1..Len(rows) |-> rows[r].total_col_span]),
   max_cell_count |-> SeqMax([r \in 1..Len(rows) |-> rows[r].cell_count]),
   rows |-> rows,
   sections |-> sections,
   column_schema |-> column_schema,
   checkbox_fields |-> checkbox_fields,
   key_value_fields |-> key_value_fields,
   inferred_type_histogram |-> inferred_type_histogram]

\* parse_table has returned: the table is appended and the loop goes on
TableReturned ==
  /\ analysis.pc = "parse_table"
  /\ pc = "done"
  /\ LET table_data == TableData(analysis.block_index)
     IN analysis' =
          [analysis EXCEPT
            !.pc = "blocks",
            !.tables = Append(@, table_data),
            !.block_sequence =
              Append(@, [index |-> analysis.block_index, type |-> "tbl",
                         table_index |-> analysis.table_index,
                         row_count |-> table_data.row_count,
                         grid_column_count |-> table_data.grid_column_count]),
            !.table_index = @ + 1,
            !.block_index = @ + 1]
  /\ LeaveTable
  /\ UNCHANGED <<frame, batch>>

\* parse_table was left by the ValueError of int(): so is analyze_docx
TableRaised ==
  /\ analysis.pc = "parse_table"
  /\ pc = "raised"
  /\ Raise("ValueError")
  /\ LeaveTable
  /\ UNCHANGED <<frame, batch>>

RECURSIVE CounterUpdate(_, _)
\* counter.update(other): the counts of other added, key by key
CounterUpdate(counter, other) ==
  IF other = << >> THEN counter
  ELSE LET entry == Head(other)
           seen == \E i \in 1..Len(counter) : counter[i].key = entry.key
           added ==
             IF seen
             THEN [i \in 1..Len(counter) |->
                    IF counter[i].key = entry.key
                    THEN [key |-> entry.key, count |-> counter[i].count + entry.count]
                    ELSE counter[i]]
             ELSE Append(counter, entry)
       IN CounterUpdate(added, Tail(other))

RECURSIVE UpdateAll(_, _)
\* a Counter updated with every histogram of the sequence
UpdateAll(histograms, counter) ==
  IF histograms = << >> THEN counter
  ELSE UpdateAll(Tail(histograms), CounterUpdate(counter, Head(histograms)))

\* the symbols of all cells of all rows of all tables, in order
AllSymbols(tables) ==
  Flatten([t \in 1..Len(tables) |->
    Flatten([r \in 1..Len(tables[t].rows) |->
      Flatten([c \in 1..Len(tables[t].rows[r].cells) |->
        tables[t].rows[r].cells[c].symbols])])])

\* the global_findings entry of the analysis
GlobalFindings(tables) ==
  LET all_checkbox_fields == Flatten([t \in 1..Len(tables) |-> tables[t].checkbox_fields])
      all_key_value_fields == Flatten([t \in 1..Len(tables) |-> tables[t].key_value_fields])
      symbols == AllSymbols(tables)
  IN [checkbox_field_count |-> Len(all_checkbox_fields),
      key_value_field_count |-> Len(all_key_value_fields),
      inferred_type_histogram |->
        UpdateAll([t \in 1..Len(tables) |-> tables[t].inferred_type_histogram], << >>),
      symbol_char_histogram |->
        CountAll([i \in 1..Len(symbols) |-> symbols[i].char], << >>),
      symbol_font_histogram |->
        CountAll([i \in 1..Len(symbols) |-> symbols[i].font], << >>),
      checkbox_fields |-> all_checkbox_fields,
      key_value_fields |-> all_key_value_fields]

\* the analysis dict before its docling entry is set; the package listing, the
\* document properties, the drawing counts and the time stamp are left out
AnalysisOf(call) ==
  [input_format |-> Slice(Lower(call.input_path.suffix), 1, Len(call.input_path.suffix)),
   conversion |-> ConversionInfo(call.input_path),
   structure |-> [block_type_counts |-> call.block_type_counts,
                  block_sequence |-> call.block_sequence,
                  table_count |-> Len(call.tables)],
   tables |-> call.tables,
   global_findings |-> GlobalFindings(call.tables)]

\* the loop over the body is over: the findings are gathered and the dict is built
CollectFindings ==
  /\ analysis.pc = "blocks"
  /\ analysis.block_index = Len(analysis.input_path.body)
  /\ analysis' = [pc |-> "docling", input_path |-> analysis.input_path,
                  use_docling |-> analysis.use_docling,
                  xml_parsed |-> analysis.xml_parsed,
                  parse_table_calls |-> analysis.parse_table_calls,
                  error |-> "None", result |-> AnalysisOf(analysis)]
  /\ UNCHANGED <<frame, tableVars, batch>>

\* the summary of one table the collaborator reports; a cell is
\* [has_text, end_row_offset_idx, end_col_offset_idx]
DoclingSummary(index, table_cells) ==
  [table_index |-> index,
   table_cell_count |-> Len(table_cells),
   non_empty_table_cell_count |->
     Cardinality({i \in 1..Len(table_cells) : table_cells[i].has_text}),
   estimated_row_count |->
     SeqMax([i \in 1..Len(table_cells) |-> table_cells[i].end_row_offset_idx]),
   estimated_col_count |->
     SeqMax([i \in 1..Len(table_cells) |-> table_cells[i].end_col_offset_idx])]

\* the mutant: without the collaborator an empty summary is reported as well
analyze_with_docling_empty_summary(outcome) ==
  IF ~outcome.installed
  THEN [available |-> FALSE, error |-> "ModuleNotFoundError",
        table_count |-> 0, table_summaries |-> << >>]
  ELSE IF ~outcome.converts
  THEN [available |-> TRUE, conversion_error |-> "ConversionError"]
  ELSE [available |-> TRUE,
        table_count |-> Len(outcome.tables),
        table_summaries |->
          [t \in 1..Len(outcome.tables) |-> DoclingSummary(t - 1, outcome.tables[t])]]

\* outcome is what the collaborator does: [installed, converts, tables]
analyze_with_docling(outcome) ==
  IF ~outcome.installed
  THEN [available |-> FALSE, error |-> "ModuleNotFoundError"]
  ELSE IF ~outcome.converts
  THEN [available |-> TRUE, conversion_error |-> "ConversionError"]
  ELSE [available |-> TRUE,
        table_count |-> Len(outcome.tables),
        table_summaries |->
          [t \in 1..Len(outcome.tables) |-> DoclingSummary(t - 1, outcome.tables[t])]]

DoclingCell(has_text, end_row, end_col) ==
  [has_text |-> has_text, end_row_offset_idx |-> end_row, end_col_offset_idx |-> end_col]

\* what the collaborator may do: be absent, fail to convert, report no table, or
\* report one table of two cells
DoclingOutcomes ==
  { [installed |-> FALSE, converts |-> FALSE, tables |-> << >>],
    [installed |-> TRUE, converts |-> FALSE, tables |-> << >>],
    [installed |-> TRUE, converts |-> TRUE, tables |-> << >>],
    [installed |-> TRUE, converts |-> TRUE,
     tables |-> << <<DoclingCell(TRUE, 1, 1), DoclingCell(FALSE, 1, 2)>> >>] }

\* with --no-docling the collaborator is not called
NotCalled == [called |-> FALSE]

\* the docling entry is set and analyze_docx returns the analysis; collaborator
\* records what the collaborator did in this call
RunDocling ==
  /\ analysis.pc = "docling"
  /\ \E outcome \in IF analysis.use_docling THEN DoclingOutcomes ELSE {NotCalled} :
       analysis' =
         [pc |-> "returned", input_path |-> analysis.input_path,
          use_docling |-> analysis.use_docling,
          xml_parsed |-> analysis.xml_parsed,
          parse_table_calls |-> analysis.parse_table_calls,
          error |-> "None",
          collaborator |-> outcome,
          result |->
            [input_format |-> analysis.result.input_format,
             conversion |-> analysis.result.conversion,
             structure |-> analysis.result.structure,
             tables |-> analysis.result.tables,
             global_findings |-> analysis.result.global_findings,
             docling |-> IF analysis.use_docling THEN analyze_with_docling(outcome)
                         ELSE [available |-> FALSE, error |-> "Disabled by --no-docling"]]]
  /\ UNCHANGED <<frame, tableVars, batch>>

NextAnalyze ==
  \/ PrepareInputDocx
  \/ ParseDocument
  \/ AnalyzeBlock
  \/ NextTable
  \/ TableReturned
  \/ TableRaised
  \/ CollectFindings
  \/ RunDocling

(***************************************************************************)
(* main: the loop over the input paths.  batch holds the arguments         *)
(* (input_paths, fail_fast, no_docling), the 0-based position of the loop, *)
(* the failures list and the reports written by write_outputs.             *)
(***************************************************************************)
StartBatch(input_paths, fail_fast, no_docling) ==
  [pc |-> "loop", input_paths |-> input_paths, fail_fast |-> fail_fast,
   no_docling |-> no_docling, position |-> 0, failures |-> << >>, written |-> << >>,
   exit_status |-> 0]

\* the try block is entered: analyze_docx is called on the next input path
AnalyzeNextInput ==
  /\ batch.pc = "loop"
  /\ batch.position < Len(batch.input_paths)
  /\ analysis' = CallAnalyze(batch.input_paths[batch.position + 1], ~batch.no_docling)
  /\ batch' = [batch EXCEPT !.pc = "try"]
  /\ UNCHANGED <<frame, tableVars>>

\* analyze_docx has returned: write_outputs writes the two reports
WriteOutputs ==
  /\ batch.pc = "try"
  /\ analysis.pc = "returned"
  /\ batch' = [batch EXCEPT
                !.written = Append(@, [input |-> batch.position,
                                       analysis |-> analysis.result]),
                !.position = @ + 1,
                !.pc = "loop"]
  /\ analysis' = NoAnalysis
  /\ UNCHANGED <<frame, tableVars>>

\* the mutant: any failure leaves the loop
RecordFailureAlwaysBreaks ==
  /\ batch.pc = "try"
  /\ analysis.pc = "raised"
  /\ batch' = [batch EXCEPT
                !.failures = Append(@, [input |-> batch.position,
                                        error |-> analysis.error]),
                !.pc = "break"]
  /\ analysis' = NoAnalysis
  /\ UNCHANGED <<frame, tableVars>>

\* the except clause: the failure is recorded, and --fail-fast leaves the loop
RecordFailure ==
  /\ batch.pc = "try"
  /\ analysis.pc = "raised"
  /\ batch' = [batch EXCEPT
                !.failures = Append(@, [input |-> batch.position,
                                        error |-> analysis.error]),
                !.position = IF batch.fail_fast THEN @ ELSE @ + 1,
                !.pc = IF batch.fail_fast THEN "break" ELSE "loop"]
  /\ analysis' = NoAnalysis
  /\ UNCHANGED <<frame, tableVars>>

\* the mutant: main returns normally whatever the failures
ExitMainWithoutStatus ==
  /\ \/ batch.pc = "loop" /\ batch.position = Len(batch.input_paths)
     \/ batch.pc = "break"
  /\ batch' = [batch EXCEPT !.pc = "exited", !.exit_status = 0]
  /\ UNCHANGED <<frame, tableVars, analysis>>

\* after the loop: SystemExit(1) if there are failures
ExitMain ==
  /\ \/ batch.pc = "loop" /\ batch.position = Len(batch.input_paths)
     \/ batch.pc = "break"
  /\ batch' = [batch EXCEPT !.pc = "exited",
                            !.exit_status = IF batch.failures # << >> THEN 1 ELSE 0]
  /\ UNCHANGED <<frame, tableVars, analysis>>

NextMain ==
  \/ AnalyzeNextInput
  \/ WriteOutputs
  \/ RecordFailure
  \/ ExitMain
  \/ NextAnalyze

(***************************************************************************)
(* Input files.                                                            *)
(***************************************************************************)
File(suffix, exists, is_package, conversion, well_formed, has_body, body) ==
  [suffix |-> suffix, exists |-> exists, is_package |-> is_package,
   conversion |-> conversion, well_formed |-> well_formed, has_body |-> has_body,
   body |-> body]

Para(text) == [type |-> "p", text |-> text]

TableBlock(element) == [type |-> "tbl", element |-> element]

SectPr == [type |-> "sectPr"]

WeightTable == TBL(GridOf(1), <<TR(Absent, <<WeightCell>>)>>)

CheckboxTable == TBL(GridOf(2), <<TR(Absent, <<PC(Absent, Number), YesNoCell>>)>>)

\* a table whose only row has a span that is no integer
BrokenRowTable == TBL(GridOf(1), <<TR(Absent, <<GC(<<"x">>)>>)>>)

\* a table whose grid has a width that is no integer
BrokenGridTable == TBL(<< <<"a">> >>, <<TR(Absent, <<GC(Absent)>>)>>)

FormBody == <<Para(<<"a", " ", " ", "b">>), TableBlock(WeightTable), SectPr>>

TwoTableBody == <<TableBlock(CheckboxTable), Para(<<" ">>), TableBlock(WeightTable)>>

BrokenMiddleBody ==
  <<TableBlock(WeightTable), TableBlock(BrokenRowTable), TableBlock(CheckboxTable)>>

BrokenGridBody == <<TableBlock(BrokenGridTable), TableBlock(WeightTable)>>

Docx(body) == File(DocxSuffix, TRUE, TRUE, "none", TRUE, TRUE, body)

\* a package whose document XML has no body element; its tables sit under the root
NoBodyDocx == File(DocxSuffix, TRUE, TRUE, "none", TRUE, FALSE, TwoTableBody)

TextFile == File(<<".", "t", "x", "t">>, TRUE, FALSE, "none", TRUE, TRUE, FormBody)

DocumentFiles ==
  { Docx(FormBody), Docx(TwoTableBody), Docx(BrokenMiddleBody), Docx(BrokenGridBody),
    Docx(<< >>),
    File(<<".", "D", "O", "C", "X">>, TRUE, TRUE, "none", TRUE, TRUE, TwoTableBody),
    NoBodyDocx,
    File(DocxSuffix, TRUE, TRUE, "none", FALSE, TRUE, FormBody),
    File(DocxSuffix, FALSE, FALSE, "none", TRUE, TRUE, FormBody),
    File(DocxSuffix, TRUE, FALSE, "none", TRUE, TRUE, FormBody),
    TextFile,
    File(<<".", "p", "d", "f">>, TRUE, TRUE, "none", TRUE, TRUE, FormBody),
    File(DocSuffix, TRUE, FALSE, "win32com", TRUE, TRUE, FormBody),
    File(<<".", "D", "o", "c">>, TRUE, FALSE, "powershell", TRUE, TRUE, TwoTableBody),
    File(DocSuffix, TRUE, FALSE, "powershell", TRUE, FALSE, FormBody),
    File(DocSuffix, TRUE, FALSE, "fails", TRUE, TRUE, FormBody),
    File(DocSuffix, TRUE, FALSE, "bad_output", TRUE, TRUE, FormBody) }

\* analyze_docx called on one file
InitDocument ==
  /\ frame = NoFrame
  /\ TableIdle
  /\ batch = NoBatch
  /\ analysis \in {CallAnalyze(input, use_docling) :
                     input \in DocumentFiles, use_docling \in BOOLEAN}

SpecDocument == InitDocument /\ [][NextAnalyze]_vars

MaxBatch == 2

BatchFiles == {Docx(FormBody), Docx(BrokenMiddleBody), NoBodyDocx, TextFile}

InitBatch ==
  /\ frame = NoFrame
  /\ TableIdle
  /\ analysis = NoAnalysis
  /\ batch \in {StartBatch(input_paths, fail_fast, no_docling) :
                  input_paths \in SeqsUpTo(BatchFiles, MaxBatch),
                  fail_fast \in BOOLEAN, no_docling \in BOOLEAN}

\* main runs to its exit: no step of it waits on anything
SpecBatch == InitBatch /\ [][NextMain]_vars /\ WF_vars(NextMain)

(***************************************************************************)
(* Claims about analyze_docx and main.                                     *)
(***************************************************************************)
\* the input reaches the loop over the body: it is prepared, its XML parses
\* and has a body
ReachesBody(input) ==
  PrepareError(input) = "None" /\ input.well_formed /\ input.has_body

\* the 1-based positions of the table blocks of a body
TableBlocks(body) == {i \in 1..Len(body) : body[i].type = "tbl"}

\* C12: a failure while analyzing one table does not abort the document:
\* analyze_docx is not left by an exception once the body is reached, and the
\* analysis it returns holds the result of every table that did not fail.
C12_TableFailureKeepsDocument ==
  (analysis.pc # "idle" /\ ReachesBody(analysis.input_path)) =>
    /\ analysis.pc # "raised"
    /\ analysis.pc = "returned" =>
         \A i \in TableBlocks(analysis.input_path.body) :
           ~TableRaises(analysis.input_path.body[i].element) =>
             \E t \in 1..Len(analysis.result.tables) :
               analysis.result.tables[t].body_block_index = i - 1

\* C14: without a body element analyze_docx fails before any table is parsed:
\* no call of parse_table, no table result, and the failure is the ValueError
\* raised after the XML was parsed; an input that is neither a .docx package
\* nor a .doc file is rejected by prepare_input_docx before any XML is parsed.
C14_StructuralFailureBeforeTables ==
  LET input == analysis.input_path
  IN analysis.pc # "idle" =>
       /\ (PrepareError(input) = "None" /\ input.well_formed /\ ~input.has_body) =>
            /\ analysis.pc \in {"prepare", "document", "raised"}
            /\ analysis.parse_table_calls = 0
            /\ analysis.tables = << >>
            /\ pc = "idle"
            /\ analysis.pc = "raised" =>
                 analysis.error = "ValueError" /\ analysis.xml_parsed
       /\ (~is_docx_package(input) /\ Lower(input.suffix) # DocSuffix) =>
            /\ analysis.pc \in {"prepare", "raised"}
            /\ ~analysis.xml_parsed
            /\ analysis.parse_table_calls = 0
            /\ analysis.pc = "raised" =>
                 analysis.error \in {"ValueError", "FileNotFoundError"}

C14_Witness ==
  /\ analysis.pc = "raised"
  /\ analysis.input_path = NoBodyDocx
  /\ analysis.xml_parsed
  /\ analysis.error = "ValueError"
  /\ analysis.parse_table_calls = 0

\* the tables analyze_docx is to return for a body, each from one whole call of
\* parse_table
ExpectedTables(body) ==
  LET blocks == TableBlocks(body)
      \* the block of the k-th table
      BlockOf(k) == CHOOSE i \in blocks : Cardinality({j \in blocks : j < i}) = k - 1
  IN [k \in 1..Cardinality(blocks) |->
       parse_table(body[BlockOf(k)].element, k - 1, BlockOf(k) - 1)]

\* C15: the analysis analyze_docx returns is complete whatever the collaborator
\* does: the tables, the structure and the global findings are those of the
\* body alone; when the collaborator is disabled, not installed or fails in
\* its conversion, the docling entry holds the flag and the reason only.
C15_CompleteWithoutCollaborator ==
  analysis.pc = "returned" =>
    LET body == analysis.input_path.body
        result == analysis.result
        outcome == analysis.collaborator
    IN /\ result.tables = ExpectedTables(body)
       /\ result.structure.table_count = Cardinality(TableBlocks(body))
       /\ Len(result.structure.block_sequence) = Len(body)
       /\ result.global_findings = GlobalFindings(ExpectedTables(body))
       /\ ~analysis.use_docling =>
            result.docling = [available |-> FALSE, error |-> "Disabled by --no-docling"]
       /\ (analysis.use_docling /\ ~outcome.installed) =>
            DOMAIN result.docling = {"available", "error"} /\ ~result.docling.available
       /\ (analysis.use_docling /\ outcome.installed /\ ~outcome.converts) =>
            DOMAIN result.docling = {"available", "conversion_error"}

C15_Witness ==
  /\ analysis.pc = "returned"
  /\ analysis.use_docling
  /\ ~analysis.collaborator.installed
  /\ Len(analysis.result.tables) = 2
  /\ analysis.result.global_findings.checkbox_field_count > 0

\* the inputs main has dealt with: their reports are written or their failure
\* is recorded
Attempted ==
  {batch.written[i].input : i \in 1..Len(batch.written)}
    \cup {batch.failures[i].input : i \in 1..Len(batch.failures)}

Failed == {batch.failures[i].input : i \in 1..Len(batch.failures)}

Written == {batch.written[i].input : i \in 1..Len(batch.written)}

\* every input after a failed one was analyzed, and its reports are written
\* unless its own analysis failed
LaterInputsAnalyzed ==
  \A i \in Failed :
    \A j \in (i + 1)..(Len(batch.input_paths) - 1) :
      /\ j \in Attempted
      /\ (ReachesBody(batch.input_paths[j + 1])
            /\ \A b \in TableBlocks(batch.input_paths[j + 1].body) :
                 ~TableRaises(batch.input_paths[j + 1].body[b].element))
           => j \in Written

\* C13: when main has gone through a batch in which a document failed, every
\* later document of the batch was still analyzed and its reports written.
C13_LaterDocumentsAnalyzed ==
  batch.pc = "exited" => LaterInputsAnalyzed

\* C13, amended: the same, for a run without --fail-fast.
C13_LaterDocumentsAnalyzedUnlessFailFast ==
  (batch.pc = "exited" /\ ~batch.fail_fast) => LaterInputsAnalyzed

C13_Witness ==
  /\ batch.pc = "exited"
  /\ ~batch.fail_fast
  /\ 0 \in Failed
  /\ 1 \in Written

(***************************************************************************)
(* The shape of a date.                                                    *)
(***************************************************************************)
\* the text is three runs of digits, Persian and Arabic-Indic ones included,
\* parted by two separators "/" or "-"; the outer runs have 1 to 4 digits and
\* the middle run 1 to max_middle
DateShape(value, max_middle) ==
  LET t == to_ascii_digits(normalize_space(value))
      separators == {i \in 1..Len(t) : t[i] \in {"/", "-"}}
      digits == {i \in 1..Len(t) : IsDigit(t[i])}
  IN /\ Cardinality(separators) = 2
     /\ separators \cup digits = 1..Len(t)
     /\ LET first == CHOOSE i \in separators : \A j \in separators : i <= j
            second == CHOOSE i \in separators : \A j \in separators : j <= i
        IN /\ (first - 1) \in 1..4
           /\ (second - first - 1) \in 1..max_middle
           /\ (Len(t) - second) \in 1..4

\* C21: infer_text_type classifies as date every text of the shape D sep D sep D
\* with sep "/" or "-" and 1 to 4 digits in each of the three segments, a middle
\* segment of 3 or 4 digits included.
C21_DateWithAnyMiddleSegment ==
  (/\ frame.fn = "infer_text_type"
   /\ frame.returned
   /\ DateShape(frame.arg, 4))
    => frame.ret = "date"

\* C21, amended: the same with a middle segment of 1 or 2 digits.
C21_DateWithShortMiddleSegment ==
  (/\ frame.fn = "infer_text_type"
   /\ frame.returned
   /\ DateShape(frame.arg, 2))
    => frame.ret = "date"

\* a date with a year of four digits at its end and a month of one digit
C21_Witness ==
  /\ frame.fn = "infer_text_type" /\ frame.returned
  /\ frame.arg = <<"1", "2", "/", "1", "/", "2", "0", "2", "4">>
  /\ DateShape(frame.arg, 2)
  /\ frame.ret = "date"

(***************************************************************************)
(* The span of a cell that is not "continue".                              *)
(***************************************************************************)
\* C22: after annotate_vertical_merges every cell that is not "continue" has
\* row_span >= 1, equal to 1 plus the number of consecutive "continue" cells of
\* its slot in the rows directly below it, the count ending at the first row
\* where the slot is absent or not "continue"; its merge_anchor_row is its own
\* row index when row_span > 1 and null when row_span = 1.
C22_SpanCountsContinueRun ==
  MergesResolved =>
    \A r \in 1..Len(rows) : \A c \in 1..Len(rows[r].cells) :
      LET cell == rows[r].cells[c]
      IN cell.v_merge # "continue" =>
           /\ cell.row_span >= 1
           /\ cell.row_span = 1 + ContinueRunBelow(rows, r - 1, Slot(cell))
           /\ cell.row_span > 1 => cell.merge_anchor_row = r - 1
           /\ cell.row_span = 1 => cell.merge_anchor_row = NoRow

\* a cell of the first row whose slot is absent from the second row and holds a
\* "continue" cell in the third: its span is 1 and it has no anchor
C22_Witness ==
  /\ MergesResolved
  /\ Len(rows) = 3
  /\ \E c \in 1..Len(rows[1].cells) :
       LET cell == rows[1].cells[c]
       IN /\ cell.v_merge # "continue"
          /\ ~HasSlot(rows[2], Slot(cell))
          /\ HasSlot(rows[3], Slot(cell))
          /\ SlotCell(rows[3], Slot(cell)).v_merge = "continue"
          /\ cell.row_span = 1
          /\ cell.merge_anchor_row = NoRow

(***************************************************************************)
(* Ties between patterns and between runs.                                 *)
(***************************************************************************)
\* the 0-based rows whose pattern is as frequent as any
MostFrequentRows(rs) ==
  {r \in 0..(Len(rs) - 1) : SamePatternCount(rs, r + 1) = DominantCount(rs)}

\* the runs <<first, last>> of consecutive rows with the pattern p that no
\* neighbouring row with the pattern extends
RunsOf(rs, p) ==
  {run \in (0..(Len(rs) - 1)) \X (0..(Len(rs) - 1)) :
     /\ run[1] <= run[2]
     /\ \A r \in run[1]..run[2] : PatternOf(rs[r + 1]) = p
     /\ run[1] > 0 => PatternOf(rs[run[1]]) # p
     /\ run[2] < Len(rs) - 1 => PatternOf(rs[run[2] + 2]) # p}

RunLength(run) == run[2] - run[1] + 1

\* C23: when several patterns are equally most frequent the dominant pattern is
\* the one that occurs first in row order, and when several runs of
\* dominant-pattern rows are equally long the candidate data block is the run
\* that starts first.
C23_TiesGoToTheEarliest ==
  (SectionsInferred /\ rows # << >>) =>
    LET first_row == SetMin(MostFrequentRows(rows))
        runs == RunsOf(rows, sections.dominant_row_pattern)
        group == sections.dominant_contiguous_group
    IN /\ sections.dominant_row_pattern = PatternOf(rows[first_row + 1])
       /\ <<group[1], group[Len(group)]>> \in runs
       /\ Len(group) = RunLength(<<group[1], group[Len(group)]>>)
       /\ \A run \in runs :
            \/ RunLength(run) < Len(group)
            \/ RunLength(run) = Len(group) /\ run[1] >= group[1]

\* four rows of two patterns in turn: the patterns tie at two rows each, and the
\* runs of the first pattern tie at one row each
C23_Witness ==
  /\ SectionsInferred
  /\ Len(rows) = 4
  /\ PatternOf(rows[1]) = PatternOf(rows[3])
  /\ PatternOf(rows[2]) = PatternOf(rows[4])
  /\ PatternOf(rows[1]) # PatternOf(rows[2])
  /\ sections.dominant_row_pattern = PatternOf(rows[1])
  /\ sections.dominant_contiguous_group = <<0>>

(***************************************************************************)
(* The data start row.                                                     *)
(***************************************************************************)
\* the cells of the row with a value: not blank and not a placeholder
ValueCells(row) ==
  {i \in 1..Len(row.cells) :
     /\ normalize_space(row.cells[i].text) # << >>
     /\ infer_text_type(row.cells[i].text) # "placeholder"}

\* at least two values, of which at least one is tagged integer, float, date,
\* measurement, range_or_tolerance or code
DataSignal(row) ==
  /\ Cardinality(ValueCells(row)) >= 2
  /\ \E i \in ValueCells(row) :
       infer_text_type(row.cells[i].text)
         \in {"integer", "float", "date", "measurement", "range_or_tolerance", "code"}

\* C24: the data start row is the first row of the contiguous dominant-pattern
\* run with a data signal, and the first row of the run when no row of it has
\* one; data_rows is the run from that row on and header_rows ends before it.
C24_DataStartsAtFirstSignal ==
  (SectionsInferred /\ rows # << >>) =>
    LET group == sections.dominant_contiguous_group
        signalled == {g \in 1..Len(group) : DataSignal(rows[group[g] + 1])}
        data_start == IF signalled = {} THEN group[1] ELSE group[SetMin(signalled)]
    IN /\ sections.data_rows = SelectSeq(group, LAMBDA idx : idx >= data_start)
       /\ sections.data_rows[1] = data_start
       /\ \A h \in 1..Len(sections.header_rows) : sections.header_rows[h] < data_start

\* three rows of one pattern: two words, then a number beside a placeholder,
\* then a number beside a word; the data starts at the third
C24_Witness ==
  /\ SectionsInferred
  /\ Len(rows) = 3
  /\ sections.dominant_contiguous_group = <<0, 1, 2>>
  /\ ~DataSignal(rows[1])
  /\ Cardinality(ValueCells(rows[2])) = 1
  /\ infer_text_type(rows[2].cells[1].text) = "integer"
  /\ DataSignal(rows[3])
  /\ sections.data_rows = <<2>>
  /\ sections.header_rows = <<0, 1>>

(***************************************************************************)
(* Dense rows: tables of wide rows, around the density threshold.          *)
(***************************************************************************)
MaxDenseRows == 3

\* a row of n cells of one column each
WideRow(n) == TR(Absent, [i \in 1..n |-> PC(Absent, Word)])

DenseRowElements == {WideRow(2), WideRow(8), WideRow(9), WideRow(14), WideRow(15)}

DenseTables == TablesOf(GridOf(15), DenseRowElements, MaxDenseRows)

InitDense == StartTable(DenseTables, {0})

SpecDense == InitDense /\ [][NextTable]_vars

\* the 0-based rows whose cell count is at least 8 and at least the given
\* share, in tenths of a cell, of the dominant pattern's cell count
RowsAtLeast(rs, tenths) ==
  {r \in 0..(Len(rs) - 1) :
     Len(rs[r + 1].cells) >= 8 /\ 10 * Len(rs[r + 1].cells) >= tenths}

\* the layout start row for the set of rows that meet the threshold
LayoutStartFor(dense) ==
  IF dense # {} THEN SetMin(dense) ELSE sections.dominant_contiguous_group[1]

\* C25: the layout start row is the first row, from the top, whose cell count is
\* at least max(8, 60% of the dominant pattern's cell count), and the first row
\* of the contiguous dominant-pattern run when no row is; metadata_rows is the
\* rows before the layout start row.
C25_LayoutStartAtSixtyPercent ==
  (SectionsInferred /\ rows # << >>) =>
    LET dense == RowsAtLeast(rows, 6 * Len(sections.dominant_row_pattern))
    IN /\ sections.layout_start_row = LayoutStartFor(dense)
       /\ sections.metadata_rows = RangeList(0, sections.layout_start_row)

\* C25, amended: the same with 60% of the dominant pattern's cell count rounded
\* down to a whole number of cells.
C25_LayoutStartAtSixtyPercentRoundedDown ==
  (SectionsInferred /\ rows # << >>) =>
    LET whole == (6 * Len(sections.dominant_row_pattern)) \div 10
        dense == RowsAtLeast(rows, 10 * whole)
    IN /\ sections.layout_start_row = LayoutStartFor(dense)
       /\ sections.metadata_rows = RangeList(0, sections.layout_start_row)

\* a row of 8 cells above two rows of 14: 60% of 14 is 8.4, the row of 8 is the
\* layout start and there is no metadata row
C25_Witness ==
  /\ SectionsInferred
  /\ Len(rows) = 3
  /\ Len(rows[1].cells) = 8
  /\ Len(sections.dominant_row_pattern) = 14
  /\ sections.dominant_contiguous_group = <<1, 2>>
  /\ sections.layout_start_row = 0
  /\ sections.metadata_rows = << >>

(***************************************************************************)
(* Columns: tables of two columns and up to MaxColumnRows rows of one      *)
(* pattern, each column filled after a rule, some rows shifted by one      *)
(* grid column.                                                            *)
(***************************************************************************)
MaxColumnRows == 9

ColumnKinds == {"distinct", "pairs", "blanks", "mixed"}

\* the text of the i-th row of a column filled after the rule
ColumnValue(kind, i) ==
  CASE kind = "distinct" -> DigitsText(i)
    [] kind = "pairs" -> DigitsText(i \div 2)
    [] kind = "blanks" -> IF i % 2 = 0 THEN << >> ELSE Word
    [] OTHER -> IF i % 3 = 0 THEN Dash ELSE IF i % 3 = 1 THEN Number ELSE Word

ColumnTable(n, left, right, shifted) ==
  TBL(GridOf(3),
      [i \in 1..n |->
        TR(IF shifted /\ i % 3 = 0 THEN <<"1">> ELSE Absent,
           <<PC(Absent, ColumnValue(left, i)), PC(Absent, ColumnValue(right, i))>>)])

ColumnTables ==
  {ColumnTable(n, left, right, shifted) :
     n \in 0..MaxColumnRows, left \in ColumnKinds, right \in ColumnKinds,
     shifted \in BOOLEAN}

InitColumns == StartTable(ColumnTables, {0})

SpecColumns == InitColumns /\ [][NextTable]_vars

\* infer_column_schema has run
SchemaInferred == pc \in {"fields", "done"}

\* the first cell of the row that occupies the slot
FirstInSlot(row, slot) ==
  row.cells[SetMin({i \in 1..Len(row.cells) : Slot(row.cells[i]) = slot})]

\* the texts, whitespace-normalized, of the data-row cells that occupy exactly
\* the slot of the column, in row order
SlotValues(column) ==
  LET slot == <<column.col_start, column.col_span>>
      holders == SelectSeq(sections.data_rows, LAMBDA d : HasSlot(rows[d + 1], slot))
  IN [k \in 1..Len(holders) |->
       normalize_space(FirstInSlot(rows[holders[k] + 1], slot).text)]

NonBlank(values) == SelectSeq(values, LAMBDA v : v # << >>)

\* the values without their repetitions, in first-seen order
FirstSeen(values) ==
  LET first == SelectSeq(RangeList(1, Len(values) + 1),
                         LAMBDA i : \A j \in 1..(i - 1) : values[j] # values[i])
  IN [k \in 1..Len(first) |-> values[first[k]]]

TagCount(values, tag) ==
  Cardinality({i \in 1..Len(values) : infer_text_type(values[i]) = tag})

\* the count a distribution holds for a key, 0 without an entry
CountOf(distribution, key) ==
  IF \E i \in 1..Len(distribution) : distribution[i].key = key
  THEN distribution[CHOOSE i \in 1..Len(distribution) : distribution[i].key = key].count
  ELSE 0

\* C26: in every column profile sample_values is the first at most 8 distinct
\* non-blank values, in first-seen order, of the data-row cells of the slot;
\* value_type_distribution counts the tag of every such non-blank value;
\* empty_cell_count counts the blank ones, placeholder_count those tagged
\* placeholder; dominant_value_type is a most frequent tag of the distribution,
\* and empty when the distribution is empty.
C26_ColumnProfile ==
  SchemaInferred =>
    \A k \in 1..Len(column_schema) :
      LET column == column_schema[k]
          values == SlotValues(column)
          filled == NonBlank(values)
          distinct == FirstSeen(filled)
          distribution == column.value_type_distribution
      IN /\ column.sample_values = SubSeq(distinct, 1, Min2(8, Len(distinct)))
         /\ \A tag \in Range(TagOrder) : CountOf(distribution, tag) = TagCount(filled, tag)
         /\ \A i \in 1..Len(distribution) :
              /\ distribution[i].count >= 1
              /\ \A j \in 1..(i - 1) : distribution[j].key # distribution[i].key
         /\ column.empty_cell_count = Len(values) - Len(filled)
         /\ column.placeholder_count = TagCount(filled, "placeholder")
         /\ IF filled = << >> THEN column.dominant_value_type = "empty"
            ELSE \A tag \in Range(TagOrder) :
                   TagCount(filled, tag) <= TagCount(filled, column.dominant_value_type)

\* nine data rows: a column of nine distinct numbers has its first eight as
\* samples, and a column of words and blanks counts four blanks
C26_Witness ==
  /\ SchemaInferred
  /\ Len(sections.data_rows) = 9
  /\ Len(column_schema) = 2
  /\ Len(FirstSeen(NonBlank(SlotValues(column_schema[1])))) = 9
  /\ Len(column_schema[1].sample_values) = 8
  /\ column_schema[1].dominant_value_type = "integer"
  /\ column_schema[2].empty_cell_count = 4
  /\ column_schema[2].sample_values = <<Word>>

\* the data rows that hold a cell in exactly the slot of the column
SlotHolders(column) ==
  {d \in SeqSet(sections.data_rows) :
     \E i \in 1..Len(rows[d + 1].cells) :
       /\ rows[d + 1].cells[i].col_start = column.col_start
       /\ rows[d + 1].cells[i].col_span = column.col_span}

\* C29: in every column profile the counts of value_type_distribution and
\* empty_cell_count add up to the number of data rows that hold a cell in
\* exactly the slot, which is at most the number of data rows;
\* placeholder_count is the distribution's count of the placeholder tag; and
\* sample_values has no duplicates and at most 8 entries.
C29_ColumnCountsAddUp ==
  SchemaInferred =>
    \A k \in 1..Len(column_schema) :
      LET column == column_schema[k]
          distribution == column.value_type_distribution
          counted == SumSeq([i \in 1..Len(distribution) |-> distribution[i].count])
      IN /\ counted + column.empty_cell_count = Cardinality(SlotHolders(column))
         /\ counted + column.empty_cell_count <= Len(sections.data_rows)
         /\ column.placeholder_count = CountOf(distribution, "placeholder")
         /\ Len(column.sample_values) <= 8
         /\ \A i, j \in 1..Len(column.sample_values) :
              i # j => column.sample_values[i] # column.sample_values[j]

\* nine data rows of which three are shifted by one grid column: the slot of the
\* first column is held by six rows; the slot of the second by all nine, three
\* of them with a blank and three with a placeholder
C29_Witness ==
  /\ SchemaInferred
  /\ Len(sections.data_rows) = 9
  /\ Len(column_schema) = 2
  /\ Cardinality(SlotHolders(column_schema[1])) = 6
  /\ Cardinality(SlotHolders(column_schema[2])) = 9
  /\ column_schema[2].empty_cell_count = 3
  /\ column_schema[2].placeholder_count = 3
  /\ CountOf(column_schema[2].value_type_distribution, "placeholder") = 3

(***************************************************************************)
(* Headers: a dense row, header rows that span otherwise than the data     *)
(* rows, blank header cells, and data rows.                                *)
(***************************************************************************)
MaxHeaderRows == 4

HeaderRowElements ==
  { WideRow(8),
    TR(Absent, <<PC(<<"2">>, <<"T">>)>>),
    TR(Absent, <<PC(Absent, <<"H">>), PC(<<"2">>, <<"K">>)>>),
    TR(Absent, <<PC(Absent, << >>), PC(Absent, Word)>>),
    TR(Absent, <<PC(<<"0">>, <<"Z">>), PC(Absent, <<"Y">>)>>),
    TR(Absent, <<PC(Absent, Number), PC(Absent, Word)>>) }

HeaderTables == TablesOf(GridOf(8), HeaderRowElements, MaxHeaderRows)

InitHeaders == StartTable(HeaderTables, {0})

SpecHeaders == InitHeaders /\ [][NextTable]_vars

\* the grid columns [col_start, col_start + col_span - 1] of a cell or column
ColumnRange(c) == c.col_start..(c.col_start + c.col_span - 1)

\* the header-row cells as <<row, cell>> positions, in header-row then cell order
HeaderCells ==
  Flatten([h \in 1..Len(sections.header_rows) |->
    [c \in 1..Len(rows[sections.header_rows[h] + 1].cells) |->
      <<sections.header_rows[h] + 1, c>>]])

\* the non-blank texts of the header-row cells whose range intersects the range
\* of the column, without repetitions
OverlappingHeaderTexts(column) ==
  LET meeting ==
        SelectSeq(HeaderCells,
                  LAMBDA at : /\ ColumnRange(rows[at[1]].cells[at[2]]) \cap ColumnRange(column) # {}
                              /\ normalize_space(rows[at[1]].cells[at[2]].text) # << >>)
  IN FirstSeen([k \in 1..Len(meeting) |->
                 normalize_space(rows[meeting[k][1]].cells[meeting[k][2]].text)])

\* where the k-th part starts in the parts joined by a separator of three characters
PartOffset(parts, k) == SumSeq([j \in 1..(k - 1) |-> Len(parts[j]) + 3])

\* label is the parts joined by " | "
JoinedByBar(label, parts) ==
  IF parts = << >> THEN label = << >>
  ELSE /\ Len(label) = PartOffset(parts, Len(parts)) + Len(parts[Len(parts)])
       /\ \A k \in 1..Len(parts) :
            /\ SubSeq(label, PartOffset(parts, k) + 1, PartOffset(parts, k) + Len(parts[k]))
                 = parts[k]
            /\ k > 1 => SubSeq(label, PartOffset(parts, k) - 2, PartOffset(parts, k))
                          = <<" ", "|", " ">>

\* C27: the header_label of a column is the " | "-join, in header-row then cell
\* order and without duplicates, of the non-blank texts of exactly the
\* header-row cells whose column range intersects the range of the data slot:
\* a cell that does not intersect never contributes, one that intersects
\* without being equal always does.
C27_HeaderLabelFromOverlap ==
  SchemaInferred =>
    \A k \in 1..Len(column_schema) :
      /\ column_schema[k].header_fragments = OverlappingHeaderTexts(column_schema[k])
      /\ JoinedByBar(column_schema[k].header_label, OverlappingHeaderTexts(column_schema[k]))

\* a dense row and a header row whose second cell spans the grid columns 1 and 2
\* above two data rows: the second column, on grid column 1, is labelled "ab | K"
C27_Witness ==
  /\ SchemaInferred
  /\ Len(rows) = 4
  /\ sections.header_rows = <<0, 1>>
  /\ Len(column_schema) = 2
  /\ Len(rows[2].cells) = 2
  /\ rows[2].cells[2].col_start = 1 /\ rows[2].cells[2].col_span = 2
  /\ column_schema[2].col_start = 1 /\ column_schema[2].col_span = 1
  /\ column_schema[1].header_label = <<"a", "b", " ", "|", " ", "H">>
  /\ column_schema[2].header_label = <<"a", "b", " ", "|", " ", "K">>

(***************************************************************************)
(* The data rows of a table.                                               *)
(***************************************************************************)
\* C28: for a table with at least one row data_rows is not empty, holds
\* consecutive row indices, and every row in it has the dominant pattern; for a
\* table without rows the three sections are empty and confidence is 0.0.
C28_DataRowsOfDominantPattern ==
  SectionsInferred =>
    IF rows = << >>
    THEN /\ sections.metadata_rows = << >>
         /\ sections.header_rows = << >>
         /\ sections.data_rows = << >>
         /\ sections.confidence = 0
    ELSE /\ sections.data_rows # << >>
         /\ \A i \in 1..Len(sections.data_rows) :
              /\ sections.data_rows[i] \in 0..(Len(rows) - 1)
              /\ i > 1 => sections.data_rows[i] = sections.data_rows[i - 1] + 1
              /\ PatternOf(rows[sections.data_rows[i] + 1]) = sections.dominant_row_pattern
              /\ SamePatternCount(rows, sections.data_rows[i] + 1) = DominantCount(rows)

\* the dominant pattern in the rows 0, 2 and 3, another pattern in row 1: the
\* data rows are the rows 2 and 3
C28_Witness ==
  /\ SectionsInferred
  /\ Len(rows) = 4
  /\ sections.dominant_pattern_rows = <<0, 2, 3>>
  /\ sections.data_rows = <<2, 3>>

(***************************************************************************)
(* The exit of main.                                                       *)
(***************************************************************************)
\* analyze_docx returns an analysis for the file
Analyzable(file) ==
  /\ ReachesBody(file)
  /\ \A b \in TableBlocks(file.body) : ~TableRaises(file.body[b].element)

\* the 0-based positions of the inputs for which analyze_docx fails
FailingInputs ==
  {i \in 0..(Len(batch.input_paths) - 1) : ~Analyzable(batch.input_paths[i + 1])}

\* the inputs main is to attempt: all of them, and with --fail-fast those up to
\* the first failing one
InputsToAttempt ==
  IF batch.fail_fast /\ FailingInputs # {}
  THEN 0..SetMin(FailingInputs)
  ELSE 0..(Len(batch.input_paths) - 1)

\* C30: main exits with a non-zero status exactly when an input failed; without
\* --fail-fast every input is attempted, in the given order, and with
\* --fail-fast none after the first failing one; reports are written only for
\* the inputs whose analysis succeeded.
C30_ExitStatusAndAttempts ==
  /\ batch.pc \in {"loop", "try"} => Attempted = 0..(batch.position - 1)
  /\ batch.pc = "exited" =>
       /\ Attempted = InputsToAttempt
       /\ Failed = InputsToAttempt \cap FailingInputs
       /\ Written = InputsToAttempt \ FailingInputs
       /\ (batch.exit_status # 0) <=> (Failed # {})
       /\ batch.exit_status \in {0, 1}
       /\ \A i, j \in 1..Len(batch.written) :
            i < j => batch.written[i].input < batch.written[j].input

\* with --fail-fast the first of two inputs fails: the second is not attempted
\* and the status is 1
C30_Witness ==
  /\ batch.pc = "exited"
  /\ batch.fail_fast
  /\ Len(batch.input_paths) = 2
  /\ Analyzable(batch.input_paths[2])
  /\ Attempted = {0}
  /\ Written = {}
  /\ batch.exit_status = 1

====
